---- MODULE Spec2Model ----
(***************************************************************************)
(* Aggregation / scoring / caching pipeline of affiliate-offer-finder:     *)
(* OfferAggregator (services/aggregator.py) over SheetsCacheService        *)
(* (services/sheets_cache.py) and the Offer model (models/offer.py).       *)
(*                                                                         *)
(* Python values are tagged records so that None, strings, numbers and     *)
(* lists can be told apart: None, Str(s), Num(n), Lst(q).  A worksheet is  *)
(* a sequence of rows, a row a sequence of cells, a cell a Str, a Num or   *)
(* a Json text.  Numbers are integers.                                     *)
(***************************************************************************)
EXTENDS Integers, Sequences, FiniteSets, TLC

VARIABLES
    sheets,             \* the spreadsheet: tab name -> NoSheet or its rows
    today,              \* date.today(), as a day number
    sheets_cache,       \* OfferAggregator.sheets_cache is attached
    networks,           \* OfferAggregator.networks (credentialed providers)
    pc,                 \* position of the running call
    op,                 \* which operation is running
    keyword,            \* argument keyword of the running call
    force_refresh,      \* argument force_refresh
    analyze_potential,  \* argument analyze_potential
    min_commission,     \* argument min_commission (search_all_networks)
    all_offers,         \* local all_offers / argument offers of write_offers
    idx,                \* loop index (provider loop, scoring loop)
    invoked,            \* history: providers called so far by the running call
    last_out,           \* history: what the latest provider call gave
    scored,             \* history: offers whose scoring step has finished
    cache_log,          \* history: cache outcome of the running call
    result,             \* value returned by the last finished call
    last_write,         \* history: tab -> the offers write_offers last stored
    same_writes,        \* history: tab -> completed writes in a row of one list
    seed,               \* the end of their ranges the random draws fall on
    environ,            \* os.environ: the settings that are set (non-empty)
    writer2             \* a second process inside write_offers: position, key, offers

vars == <<sheets, today, sheets_cache, networks, pc, op,
          keyword, force_refresh, analyze_potential, min_commission,
          all_offers, idx, invoked, last_out, scored, cache_log, result,
          last_write, same_writes, seed, environ, writer2>>

\* ------------------------------------------------------------------ bounds
MaxDay == 2

\* ------------------------------------------------------------ Python values
None == [t |-> "none"]
Str(s) == [t |-> "str", v |-> s]
Num(n) == [t |-> "num", v |-> n]
Lst(q) == [t |-> "list", v |-> q]
\* the text json.dumps(q) produces for the list q
Json(q) == [t |-> "json", v |-> q]
\* one entry of generate_seo_keywords: {"keyword": kw, "volume": vol}
KwDict(kw, vol) == [t |-> "dict", v |-> <<kw, vol>>]

Max(a, b) == IF a >= b THEN a ELSE b
Min(a, b) == IF a <= b THEN a ELSE b

\* Python truthiness of a value
Truthy(x) ==
    CASE x.t = "none" -> FALSE
      [] x.t = "str"  -> x.v # ""
      [] x.t = "num"  -> x.v # 0
      [] x.t = "list" -> x.v # <<>>
      [] OTHER        -> TRUE

\* str(x) for the values a cell or a field can hold
PyStr(x) ==
    CASE x.t = "str"  -> x
      [] x.t = "num"  -> Str(ToString(x.v))
      [] x.t = "none" -> Str("None")
      [] OTHER        -> x

\* ------------------------------------------------------------- Offer model
OFFER_COLUMNS ==
    << "id", "name", "description", "network",
       "advertiser_name", "advertiser_id",
       "commission_type", "commission_value", "commission_currency",
       "epc", "conversion_rate", "avg_sale_value",
       "popularity_score", "category", "subcategory",
       "tracking_url", "landing_page_url",
       "youtube_score", "search_interest", "search_trend",
       "potential_score", "potential_rating", "potential_analysis",
       "related_keywords",
       "scalability_score", "cookie_duration", "traffic_monthly",
       "growth_percentage", "competition_level",
       "domain_authority", "instagram_followers" >>

Columns == {OFFER_COLUMNS[i] : i \in 1..Len(OFFER_COLUMNS)}

\* declared type of every field of class Offer
OfferFieldType ==
    [c \in Columns |->
        CASE c \in {"id", "name", "network", "advertiser_name",
                    "advertiser_id", "commission_currency"} -> "str"
          [] c \in {"commission_value", "epc", "conversion_rate",
                    "avg_sale_value", "popularity_score",
                    "youtube_score"} -> "ofloat"
          [] c \in {"search_interest", "potential_score",
                    "scalability_score", "cookie_duration",
                    "domain_authority"} -> "oint"
          [] c = "related_keywords" -> "olist_str"
          [] OTHER -> "ostr"]

\* field defaults of class Offer
OfferDefault ==
    [c \in Columns |-> IF c = "commission_currency" THEN Str("USD") ELSE None]

\* Offer(id=..., name=..., ...) as the providers build it
NewOffer(fields) ==
    [c \in Columns |-> IF c \in DOMAIN fields THEN fields[c] ELSE OfferDefault[c]]

\* pydantic validation of one constructor argument against the field type
FieldValid(ty, x) ==
    CASE ty = "str"    -> x.t \in {"str", "json"}
      [] ty = "ostr"   -> x.t \in {"none", "str", "json"}
      [] ty = "ofloat" -> x.t \in {"none", "num"}
      [] ty = "oint"   -> x.t \in {"none", "num"}
      [] ty = "olist_str" ->
            \/ x.t = "none"
            \/ /\ x.t = "list"
               /\ \A i \in 1..Len(x.v) : x.v[i].t = "str"
      [] OTHER -> FALSE

\* Offer(**kwargs) raises ValidationError unless every argument validates
OfferValid(kwargs) == \A c \in Columns : FieldValid(OfferFieldType[c], kwargs[c])

\* ------------------------------------------------------------ serialization
\* SheetsCacheService._offer_to_row: one cell per column, in column order
_offer_to_row(offer) ==
    [i \in 1..Len(OFFER_COLUMNS) |->
        LET col == OFFER_COLUMNS[i]
            value == offer[col]
        IN  IF value = None THEN Str("")
            ELSE IF col = "related_keywords"
                 THEN (IF Truthy(value) THEN Json(value.v) ELSE Str(""))
            ELSE IF value.t = "num" THEN value
            ELSE PyStr(value)]

\* row.get(col, default) on a record of get_all_records
RowGet(row, col, default) == IF col \in DOMAIN row THEN row[col] ELSE default

IsBlank(val) == val = None \/ val = Str("")

to_float(val) ==
    IF IsBlank(val) THEN None
    ELSE IF val.t = "num" THEN val
    ELSE None                       \* float("text") raises ValueError

to_int(val) ==
    IF IsBlank(val) THEN None
    ELSE IF val.t = "num" THEN val  \* int(float(n)) of an integer n
    ELSE None

to_str(val) == IF IsBlank(val) THEN None ELSE PyStr(val)

\* json.loads inside _row_to_offer, with its guard and its except clause
LoadRelatedKeywords(rk_val) ==
    IF ~Truthy(rk_val) THEN None
    ELSE IF rk_val.t = "json" THEN Lst(rk_val.v)
    ELSE None                       \* JSONDecodeError / TypeError

\* the keyword arguments _row_to_offer passes to Offer(...)
RowKwargs(row) ==
    [c \in Columns |->
        CASE c \in {"id", "name", "network", "advertiser_name", "advertiser_id"}
                -> PyStr(RowGet(row, c, Str("")))
          [] c = "commission_currency"
                -> LET x == RowGet(row, c, Str("USD"))
                   IN  PyStr(IF Truthy(x) THEN x ELSE Str("USD"))
          [] c = "related_keywords"
                -> LoadRelatedKeywords(RowGet(row, c, Str("")))
          [] OfferFieldType[c] = "ofloat" -> to_float(RowGet(row, c, None))
          [] OfferFieldType[c] = "oint"   -> to_int(RowGet(row, c, None))
          [] OTHER                        -> to_str(RowGet(row, c, None))]

\* SheetsCacheService._row_to_offer: the Offer, or None when Offer(...) raises
_row_to_offer(row) ==
    LET kwargs == RowKwargs(row)
    IN  IF OfferValid(kwargs) THEN kwargs ELSE None

\* ---------------------------------------------------------------- worksheets
META_WORKSHEET_NAME == "_metadata"
FEEDBACK_WORKSHEET_NAME == "_feedback"

NoSheet == [ex |-> FALSE, rows |-> <<>>]
Sheet(rows) == [ex |-> TRUE, rows |-> rows]

OfferHeader == [i \in 1..Len(OFFER_COLUMNS) |-> Str(OFFER_COLUMNS[i])]
MetaHeader == <<Str("keyword"), Str("last_updated")>>

\* a cell of a row, "" when the row is shorter
Cell(row, j) == IF j <= Len(row) THEN row[j] ELSE Str("")

\* ws.update(values, range) with the range starting at row r0, column A:
\* the cells written replace what was there, every other cell is kept
UpdateRange(rows, r0, values) ==
    [i \in 1..Max(Len(rows), r0 + Len(values) - 1) |->
        IF i >= r0 /\ i < r0 + Len(values)
        THEN LET new == values[i - r0 + 1]
                 old == IF i <= Len(rows) THEN rows[i] ELSE <<>>
             IN  [j \in 1..Max(Len(old), Len(new)) |->
                    IF j <= Len(new) THEN new[j] ELSE old[j]]
        ELSE IF i <= Len(rows) THEN rows[i] ELSE <<>>]

\* a worksheet whose clear() leaves the rows in place
ClearSheetKeepsRows(rows) == rows

\* ws.clear()
ClearSheet(rows) == <<>>

\* ws.update_cell(r, c, value)
UpdateCell(rows, r, c, value) ==
    [i \in 1..Len(rows) |->
        IF i = r
        THEN [j \in 1..Max(Len(rows[i]), c) |->
                IF j = c THEN value ELSE Cell(rows[i], j)]
        ELSE rows[i]]

\* ws.find(query, in_column=1): the first row whose first cell is the query,
\* 0 when there is none
Find(rows, query) ==
    LET hits == {i \in 1..Len(rows) :
                    /\ Len(rows[i]) >= 1
                    /\ rows[i][1].t \in {"str", "num"}
                    /\ PyStr(rows[i][1]).v = query}
    IN  IF hits = {} THEN 0
        ELSE CHOOSE i \in hits : \A j \in hits : i <= j

\* ws.get_all_records(): one record per row after the header row, keyed by
\* the header cells
get_all_records(rows) ==
    IF Len(rows) <= 1 THEN <<>>
    ELSE LET hdr == rows[1]
             keys == {hdr[j].v : j \in 1..Len(hdr)}
             col(k) == CHOOSE j \in 1..Len(hdr) :
                          hdr[j].v = k /\ \A j2 \in (j+1)..Len(hdr) : hdr[j2].v # k
         IN  [i \in 1..(Len(rows) - 1) |->
                [k \in keys |-> Cell(rows[i + 1], col(k))]]

\* ------------------------------------------------------------------ tab names
NoKeyword == "<None>"
Keywords == {NoKeyword, "Software "}

\* effective_keyword = keyword if keyword else "software"
EffectiveKeyword(kw) == IF kw = NoKeyword THEN "software" ELSE kw

\* SheetsCacheService._sanitize_tab_name on the keys of the model:
\* strip, lower-case, map / \ [ ] and cut to 100 characters
_sanitize_tab_name(kw) ==
    CASE kw = "Software " -> "software"
      [] kw = "software" -> "software"
      [] kw = "VPN "     -> "vpn"
      [] kw = "keyword"  -> "keyword"
      [] kw = " _Metadata" -> "_metadata"
      [] kw = ""         -> "default"
      [] OTHER           -> kw

\* the keys handed to SheetsCacheService directly
CacheKeys == {"Software ", "keyword"}

\* the keys of a run of write_offers calls alone: two that sanitize to one
\* tab name and one of another tab
StampKeys == {"Software ", "software", "VPN "}

KeyTabs ==
    {_sanitize_tab_name(EffectiveKeyword(k)) : k \in Keywords \cup CacheKeys \cup StampKeys}
Tabs == KeyTabs \cup {META_WORKSHEET_NAME, FEEDBACK_WORKSHEET_NAME}

\* ---------------------------------------------------------------- freshness
Days == 1..MaxDay

\* updated_date.strftime("%Y-%m-%d")
strftime(d) ==
    IF d < 10 THEN "2026-11-0" \o ToString(d) ELSE "2026-11-" \o ToString(d)

ParsableDates == {strftime(d) : d \in 1..30}

\* datetime.strptime(date_str, "%Y-%m-%d").date(); callers test ParsableDates
strptime(date_str) == CHOOSE d \in 1..30 : strftime(d) = date_str

\* _get_or_create_worksheet / _get_or_create_meta_worksheet: the spreadsheet
\* after the call (the tab is added with its header when it is missing)
EnsureSheet(sh, tab, header) ==
    IF sh[tab].ex THEN sh ELSE [sh EXCEPT ![tab] = Sheet(<<header>>)]

Raised == [t |-> "raise"]

\* get_last_updated: None, Num(day), or Raised (strptime's ValueError)
get_last_updated(sh, kw) ==
    LET meta == EnsureSheet(sh, META_WORKSHEET_NAME, MetaHeader)[META_WORKSHEET_NAME].rows
        r == Find(meta, _sanitize_tab_name(kw))
    IN  IF r = 0 THEN None
        ELSE LET date_str == Cell(meta[r], 2)
             IN  IF ~Truthy(date_str) THEN None
                 ELSE IF date_str.t = "str" /\ date_str.v \in ParsableDates
                      THEN Num(strptime(date_str.v))
                 ELSE Raised

\* is_cache_fresh: "True", "False", or "Raised" when get_last_updated raises
is_cache_fresh(sh, kw, day) ==
    LET last_updated == get_last_updated(sh, kw)
    IN  IF last_updated = Raised THEN "Raised"
        ELSE IF last_updated = None THEN "False"
        ELSE IF last_updated.v = day THEN "True" ELSE "False"

\* a stamp that appends a row without looking the key up
SetLastUpdatedAppend(sh, kw, updated_date) ==
    LET sh1 == EnsureSheet(sh, META_WORKSHEET_NAME, MetaHeader)
    IN  [sh1 EXCEPT ![META_WORKSHEET_NAME] =
            Sheet(Append(sh1[META_WORKSHEET_NAME].rows,
                         <<Str(_sanitize_tab_name(kw)), Str(strftime(updated_date))>>))]

\* _set_last_updated: the spreadsheet after the upsert of (tab, date)
_set_last_updated(sh, kw, updated_date) ==
    LET sh1 == EnsureSheet(sh, META_WORKSHEET_NAME, MetaHeader)
        meta == sh1[META_WORKSHEET_NAME].rows
        tab_name == _sanitize_tab_name(kw)
        date_str == Str(strftime(updated_date))
        r == Find(meta, tab_name)
    IN  IF r # 0
        THEN [sh1 EXCEPT ![META_WORKSHEET_NAME] =
                Sheet(UpdateCell(meta, r, 2, date_str))]
        ELSE [sh1 EXCEPT ![META_WORKSHEET_NAME] =
                Sheet(Append(meta, <<Str(tab_name), date_str>>))]

\* a read that gives up the whole table when one row does not parse
ParseRowsAllOrNothing(records) ==
    LET parsed == [i \in 1..Len(records) |-> _row_to_offer(records[i])]
    IN  IF \E i \in 1..Len(records) : parsed[i] = None THEN <<>> ELSE parsed

\* read_offers: the offers of the tab, unparsable rows skipped
RECURSIVE ParseRows(_)
ParseRows(records) ==
    IF records = <<>> THEN <<>>
    ELSE LET offer == _row_to_offer(Head(records))
         IN  IF offer = None THEN ParseRows(Tail(records))
             ELSE <<offer>> \o ParseRows(Tail(records))

read_offers(sh, kw) ==
    LET tab_name == _sanitize_tab_name(kw)
    IN  IF ~sh[tab_name].ex THEN <<>>
        ELSE ParseRows(get_all_records(sh[tab_name].rows))

\* ----------------------------------------------------------------- providers
\* OfferAggregator.discovery_networks, in registration order
discovery_networks == <<"offervault", "affbank">>

OfferI1 ==
    NewOffer([id |-> Str("1001"), name |-> Str("NordVPN Affiliate Program"),
              network |-> Str("impact"), advertiser_name |-> Str("Nord"),
              advertiser_id |-> Str("77"), commission_type |-> Str("CPA"),
              commission_value |-> Num(75), epc |-> Num(2),
              popularity_score |-> Num(60), category |-> Str("Software"),
              youtube_score |-> Num(90)])

\* a campaign whose CampaignName is blank
OfferI2 ==
    NewOffer([id |-> Str("1002"), name |-> Str(" "),
              network |-> Str("impact"), advertiser_name |-> Str("Unknown"),
              advertiser_id |-> Str(""), commission_type |-> Str("CPS"),
              youtube_score |-> Num(0)])

\* a campaign whose Stats.EPC is negative (reversals outweigh earnings):
\* calculate_youtube_score gives min(-1 * 20, 40) = -20; its advertiser is
\* one the discovery providers list too
OfferI3 ==
    NewOffer([id |-> Str("1003"), name |-> Str("Surfshark Partners"),
              network |-> Str("impact"), advertiser_name |-> Str("surfshark"),
              advertiser_id |-> Str("78"), commission_type |-> Str("CPS"),
              epc |-> Num(-1), youtube_score |-> Num(-20)])

OfferV1 ==
    NewOffer([id |-> Str("serp-1"), name |-> Str("Surfshark Partners"),
              description |-> Str("Surfshark partner program"),
              network |-> Str("offervault"),
              advertiser_name |-> Str("surfshark"),
              advertiser_id |-> Str("serp-1"),
              commission_type |-> Str("Percentage"),
              commission_value |-> Num(40), category |-> Str("Direct Brand"),
              landing_page_url |-> Str("https://surfshark.com")])

OfferA1 ==
    NewOffer([id |-> Str("affbank-1"), name |-> Str("PIN-UP Casino - EC CPA"),
              description |-> Str("Affiliate offer from Alfaleads - Earn $25"),
              network |-> Str("alfaleads"), advertiser_name |-> Str("PIN-UP"),
              advertiser_id |-> Str("affbank-1"),
              commission_type |-> Str("Fixed"), commission_value |-> Num(25),
              category |-> Str("Direct Brand"),
              tracking_url |-> Str("https://affbank.com/o/1"),
              landing_page_url |-> Str("https://affbank.com/o/1")])

\* what one search_offers call of a provider can give the aggregator:
\* an exception, or a list of offers
ProviderOutcomes(net) ==
    CASE net = "impact"     -> {Raised, Lst(<<>>), Lst(<<OfferI1, OfferI2>>),
                                Lst(<<OfferI3>>)}
      [] net = "offervault" -> {Raised, Lst(<<>>), Lst(<<OfferV1>>)}
      [] net = "affbank"    -> {Raised, Lst(<<>>), Lst(<<OfferA1>>)}

\* ------------------------------------------------------------ Scoring Engine
\* extract_brand_keyword on the names of the model: the first word left after
\* the affiliate words and the special characters are removed; a name of
\* white space only makes offer_name.strip().split()[0] raise IndexError
BrandRaises(name) == name = Str(" ")

extract_brand_keyword(name) ==
    CASE name = Str("NordVPN Affiliate Program") -> "NordVPN"
      [] name = Str("Surfshark Partners")        -> "Surfshark"
      [] name = Str("PIN-UP Casino - EC CPA")    -> "PIN-UP"
      [] OTHER                                   -> "unknown"

\* brand.lower() and len(brand)
BrandLower(brand) ==
    CASE brand = "NordVPN"   -> "nordvpn"
      [] brand = "Surfshark" -> "surfshark"
      [] brand = "PIN-UP"    -> "pin-up"
      [] OTHER               -> brand

BrandLen(brand) ==
    CASE brand = "NordVPN"   -> 7
      [] brand = "Surfshark" -> 9
      [] brand = "PIN-UP"    -> 6
      [] OTHER               -> 7

\* the draws of the random module (randint, uniform) and the SerpAPI answer:
\* the low end or the high end of every range; a run keeps to one end
Seeds == {"lo", "hi"}

\* f"{volume/1000:.1f}k".replace('.0k', 'k'), else str(volume)
FormatVolume(volume) ==
    IF volume >= 1000
    THEN LET tenths == (volume + 50) \div 100
         IN  IF tenths % 10 = 0 THEN ToString(tenths \div 10) \o "k"
             ELSE ToString(tenths \div 10) \o "." \o ToString(tenths % 10) \o "k"
    ELSE ToString(volume)

\* estimate_keyword_volume: by the number of words of the keyword
estimate_keyword_volume(word_count, base_volume) ==
    FormatVolume(CASE word_count = 1 -> base_volume
                   [] word_count = 2 -> (base_volume * 4) \div 10
                   [] word_count = 3 -> (base_volume * 2) \div 10
                   [] OTHER          -> base_volume \div 10)

\* generate_seo_keywords: five keyword/volume dicts
generate_seo_keywords(name, sd) ==
    LET brand == BrandLower(extract_brand_keyword(name))
        base_volume == IF sd = "lo" THEN 800 ELSE 2000
    IN  << KwDict(brand, estimate_keyword_volume(1, base_volume)),
           KwDict(brand \o " affiliate", estimate_keyword_volume(2, base_volume)),
           KwDict(brand \o " affiliate program", estimate_keyword_volume(3, base_volume)),
           KwDict(brand \o " review", estimate_keyword_volume(2, base_volume)),
           KwDict(brand \o " discount", estimate_keyword_volume(2, base_volume)) >>

\* the commission score of analyze_offer_potential
CommissionScore(commission_value, commission_type) ==
    IF ~Truthy(commission_value) THEN 50
    ELSE IF commission_type = Str("Fixed")
         THEN Min(100, (commission_value.v * 100) \div 50)
    ELSE IF commission_type = Str("Percentage")
         THEN Min(100, commission_value.v * 10)
    ELSE 50

CommissionDesc(commission_value, commission_type) ==
    IF ~Truthy(commission_value) THEN "Commission info not available"
    ELSE IF commission_type = Str("Fixed")
         THEN "$" \o ToString(commission_value.v) \o " fixed commission"
    ELSE IF commission_type = Str("Percentage")
         THEN ToString(commission_value.v) \o "% commission"
    ELSE "Commission type unknown"

PotentialRating(score) ==
    IF score >= 75 THEN "Excellent"
    ELSE IF score >= 60 THEN "Good"
    ELSE IF score >= 40 THEN "Fair"
    ELSE "Poor"

\* KeywordAnalyzer.analyze_offer_potential: (score, rating, analysis, keywords)
analyze_offer_potential(name, commission_value, commission_type, sd) ==
    LET score == CommissionScore(commission_value, commission_type)
        rating == PotentialRating(score)
    IN  [score |-> score, rating |-> rating,
         analysis |-> rating \o " - " \o CommissionDesc(commission_value, commission_type),
         related_keywords |-> generate_seo_keywords(name, sd)]

\* get_competition_level: None without SerpAPI or on its failure, else a tier
get_competition_level(sd) == IF sd = "lo" THEN None ELSE Str("Low")

estimate_cookie_duration(commission_value) ==
    IF ~Truthy(commission_value) THEN 30
    ELSE IF commission_value.v >= 100 THEN 90
    ELSE IF commission_value.v >= 50 THEN 60
    ELSE IF commission_value.v >= 20 THEN 45
    ELSE 30

\* estimate_traffic: the visits drawn for the brand, before formatting
TrafficDraw(brand, sd) ==
    IF BrandLen(brand) <= 5 THEN (IF sd = "lo" THEN 50000 ELSE 500000)
    ELSE IF BrandLen(brand) <= 8 THEN (IF sd = "lo" THEN 10000 ELSE 100000)
    ELSE (IF sd = "lo" THEN 1000 ELSE 20000)

\* the thousands f"{traffic/1000:.0f}" prints: the nearest whole number, a
\* half going to the even neighbour
Thousands(traffic) ==
    LET k == traffic \div 1000
        r == traffic % 1000
    IN  IF r > 500 \/ (r = 500 /\ k % 2 = 1) THEN k + 1 ELSE k

\* f"{traffic/1000:.0f}K/mo" and its M and plain forms
FormatTraffic(traffic) ==
    IF traffic >= 1000000
    THEN LET tenths == (traffic + 50000) \div 100000
         IN  IF tenths % 10 = 0 THEN ToString(tenths \div 10) \o "M/mo"
             ELSE ToString(tenths \div 10) \o "." \o ToString(tenths % 10) \o "M/mo"
    ELSE IF traffic >= 1000 THEN ToString(Thousands(traffic)) \o "K/mo"
    ELSE ToString(traffic) \o "/mo"

\* the number float(traffic_clean) reads back from the formatted traffic,
\* traffic_clean being the text with "/mo" removed, "K" replaced by "000" and
\* "M" by "000000": "45K/mo" reads as 45000 and "2M/mo" as 2000000, but
\* "2.3M/mo" becomes "2.3000000" and reads as 2.3 (its whole part here)
TrafficNum(traffic) ==
    IF traffic >= 1000000
    THEN LET tenths == (traffic + 50000) \div 100000
         IN  IF tenths % 10 = 0 THEN (tenths \div 10) * 1000000 ELSE tenths \div 10
    ELSE IF traffic >= 1000 THEN Thousands(traffic) * 1000
    ELSE traffic

estimate_growth(competition_level, sd) ==
    IF competition_level \in {Str("Very Low"), Str("Low")}
    THEN (IF sd = "lo" THEN "+40%" ELSE "+80%")
    ELSE IF competition_level = Str("Medium")
    THEN (IF sd = "lo" THEN "+10%" ELSE "+40%")
    ELSE (IF sd = "lo" THEN "-10%" ELSE "+20%")

estimate_domain_authority(traffic_num, sd) ==
    IF traffic_num >= 1000000 THEN (IF sd = "lo" THEN 70 ELSE 90)
    ELSE IF traffic_num >= 100000 THEN (IF sd = "lo" THEN 50 ELSE 70)
    ELSE IF traffic_num >= 10000 THEN (IF sd = "lo" THEN 35 ELSE 55)
    ELSE (IF sd = "lo" THEN 20 ELSE 40)

\* int(traffic_num * uniform(0.05, 0.10)), formatted
estimate_instagram_followers(traffic_num, sd) ==
    LET followers == IF sd = "lo" THEN (traffic_num * 5) \div 100
                     ELSE (traffic_num * 10) \div 100
    IN  IF followers >= 1000000
        THEN LET tenths == (followers + 50000) \div 100000
             IN  IF tenths % 10 = 0 THEN ToString(tenths \div 10) \o "M"
                 ELSE ToString(tenths \div 10) \o "." \o ToString(tenths % 10) \o "M"
        ELSE IF followers >= 1000 THEN ToString((followers + 500) \div 1000) \o "K"
        ELSE ToString(followers)

calculate_scalability_score(commission_value, competition_level, cookie_duration, traffic_num, domain_authority) ==
    LET commission == IF Truthy(commission_value)
                      THEN (IF commission_value.v >= 100 THEN 30
                            ELSE IF commission_value.v >= 50 THEN 25
                            ELSE IF commission_value.v >= 20 THEN 15
                            ELSE 5)
                      ELSE 10
        competition == CASE competition_level = Str("Very Low") -> 25
                         [] competition_level = Str("Low")      -> 20
                         [] competition_level = Str("Medium")   -> 12
                         [] competition_level = Str("High")     -> 5
                         [] OTHER                               -> 10
        cookie == IF cookie_duration >= 90 THEN 15
                  ELSE IF cookie_duration >= 60 THEN 12
                  ELSE IF cookie_duration >= 45 THEN 8
                  ELSE 5
        traffic == IF traffic_num >= 100000 THEN 15
                   ELSE IF traffic_num >= 50000 THEN 12
                   ELSE IF traffic_num >= 10000 THEN 8
                   ELSE 5
        authority == IF domain_authority >= 70 THEN 15
                     ELSE IF domain_authority >= 50 THEN 12
                     ELSE IF domain_authority >= 35 THEN 8
                     ELSE 5
    IN  Min(100, commission + competition + cookie + traffic + authority)

\* BrandMetricsAnalyzer.analyze_brand_scalability
analyze_brand_scalability(name, commission_value, sd) ==
    LET brand_keyword == extract_brand_keyword(name)
        competition_level == get_competition_level(sd)
        cookie_duration == estimate_cookie_duration(commission_value)
        traffic == TrafficDraw(brand_keyword, sd)
        traffic_num == TrafficNum(traffic)
        domain_authority == estimate_domain_authority(traffic_num, sd)
    IN  [scalability_score |->
            Num(calculate_scalability_score(commission_value, competition_level,
                    cookie_duration, traffic_num, domain_authority)),
         cookie_duration |-> Num(cookie_duration),
         traffic_monthly |-> Str(FormatTraffic(traffic)),
         growth_percentage |-> Str(estimate_growth(competition_level, sd)),
         competition_level |-> competition_level,
         domain_authority |-> Num(domain_authority),
         instagram_followers |-> Str(estimate_instagram_followers(traffic_num, sd))]

\* a scoring that writes the brand keyword it extracted over the offer's name
ScoreOfferRenames(offer, sd) ==
    [offer EXCEPT !.name = Str(extract_brand_keyword(offer.name))]

\* one iteration of the loop of analyze_offers_potential: the offer after its
\* scoring; an exception leaves it as it was when the exception was raised
ScoreOffer(offer, sd) ==
    IF BrandRaises(offer.name) THEN offer
    ELSE LET p == analyze_offer_potential(offer.name, offer.commission_value,
                                          offer.commission_type, sd)
             s == analyze_brand_scalability(offer.name, offer.commission_value, sd)
         IN  [c \in Columns |->
                CASE c = "potential_score"    -> Num(p.score)
                  [] c = "potential_rating"   -> Str(p.rating)
                  [] c = "potential_analysis" -> Str(p.analysis)
                  [] c = "related_keywords"   -> Lst(p.related_keywords)
                  [] c \in DOMAIN s           -> s[c]
                  [] OTHER                    -> offer[c]]

\* ------------------------------------------------------------ state machine
\* the providers a call fans out to, in invocation order
Providers ==
    IF op = "all" THEN networks ELSE networks \o discovery_networks

effective_keyword == EffectiveKeyword(keyword)
tab_name == _sanitize_tab_name(effective_keyword)

\* history of the cache requests of the running call: what the freshness check
\* and the read gave, how far the write got, the rows the table had before it
NoLog == [fresh |-> "unchecked", read |-> "none", write |-> "none", before |-> 0]

WritePcs == {"w_open", "w_clear", "w_header", "w_rows", "w_stamp"}

\* the offers all_offers.sort(key=lambda x: x.youtube_score or 0,
\* reverse=True) leaves: a stable sort, highest score first
SortKey(offer) == IF Truthy(offer.youtube_score) THEN offer.youtube_score.v ELSE 0

\* the same sort without reverse=True: lowest score first
RECURSIVE SortAscending(_)
SortAscending(offers) ==
    IF offers = <<>> THEN <<>>
    ELSE LET n == Len(offers)
             x == offers[n]
             front == SortAscending(SubSeq(offers, 1, n - 1))
             Before(o) == SortKey(o) <= SortKey(x)
             After(o) == SortKey(o) > SortKey(x)
         IN  SelectSeq(front, Before) \o <<x>> \o SelectSeq(front, After)

RECURSIVE SortByYoutubeScore(_)
SortByYoutubeScore(offers) ==
    IF offers = <<>> THEN <<>>
    ELSE LET n == Len(offers)
             x == offers[n]
             front == SortByYoutubeScore(SubSeq(offers, 1, n - 1))
             Before(o) == SortKey(o) >= SortKey(x)
             After(o) == SortKey(o) < SortKey(x)
         IN  SelectSeq(front, Before) \o <<x>> \o SelectSeq(front, After)

\* the min_commission filter of search_all_networks
FilterMinCommission(offers, mc) ==
    IF Truthy(mc)
    THEN LET Keep(o) == Truthy(o.commission_value) /\ o.commission_value.v >= mc.v
         IN  SelectSeq(offers, Keep)
    ELSE offers

MinCommissions == {None, Num(0), Num(50)}

\* Config.is_impact_configured: both settings are set
ImpactSettings == {"IMPACT_ACCOUNT_SID", "IMPACT_AUTH_TOKEN"}

\* no second process is writing
NoWriter == [pc |-> "off", keyword |-> NoKeyword, offers |-> <<>>]

\* the aggregator as __init__ leaves it where Config answers
\* is_sheets_configured: the cache attached or not, Impact registered when
\* its settings are set, the two discovery providers registered

Init ==
    /\ sheets = [tab \in Tabs |-> NoSheet]
    /\ today = 1
    /\ sheets_cache \in BOOLEAN
    /\ networks \in {<<>>, <<"impact">>}
    /\ pc = "idle"
    /\ op = "none"
    /\ keyword = NoKeyword
    /\ force_refresh = FALSE
    /\ analyze_potential = FALSE
    /\ min_commission = None
    /\ all_offers = <<>>
    /\ idx = 0
    /\ invoked = <<>>
    /\ last_out = None
    /\ scored = 0
    /\ cache_log = NoLog
    /\ result = None
    /\ last_write = [tab \in Tabs |-> None]
    /\ same_writes = [tab \in Tabs |-> 0]
    /\ seed \in Seeds
    /\ environ = IF networks = <<>> THEN {} ELSE ImpactSettings
    /\ writer2 = NoWriter

\* a caller starts search_discovery_networks(keyword, analyze_potential,
\* force_refresh)
CallDiscovery ==
    /\ pc = "idle"
    /\ \E kw \in Keywords, force \in BOOLEAN, analyze \in BOOLEAN :
          /\ keyword' = kw
          /\ force_refresh' = force
          /\ analyze_potential' = analyze
    /\ op' = "discovery"
    /\ pc' = "check"
    /\ all_offers' = <<>>
    /\ idx' = 1
    /\ invoked' = <<>>
    /\ last_out' = None
    /\ scored' = 0
    /\ cache_log' = NoLog
    /\ result' = None
    /\ UNCHANGED <<sheets, today, sheets_cache, networks, min_commission, last_write, same_writes, seed, environ, writer2>>

\* a caller starts search_all_networks(min_commission)
CallSearchAll ==
    /\ pc = "idle"
    /\ \E mc \in MinCommissions : min_commission' = mc
    /\ op' = "all"
    /\ pc' = "fanout"
    /\ all_offers' = <<>>
    /\ idx' = 1
    /\ invoked' = <<>>
    /\ last_out' = None
    /\ scored' = 0
    /\ cache_log' = NoLog
    /\ result' = None
    /\ UNCHANGED <<sheets, today, sheets_cache, networks, keyword,
                   force_refresh, analyze_potential, last_write, same_writes, seed, environ, writer2>>

\* search_discovery_networks, the cache check: no cache attached or
\* force_refresh set, the check is skipped
CacheSkipped ==
    /\ pc = "check"
    /\ ~(sheets_cache /\ ~force_refresh)
    /\ pc' = "fanout"
    /\ UNCHANGED <<sheets, today, sheets_cache, networks, op, keyword,
                   force_refresh, analyze_potential, min_commission,
                   all_offers, idx, invoked, last_out, scored, cache_log, result,
                   last_write, same_writes, seed, environ, writer2>>

\* a lookup that sets the freshness table up anew
AfterFreshCheckResets ==
    [sheets EXCEPT ![META_WORKSHEET_NAME] = Sheet(<<MetaHeader>>)]

\* the spreadsheet after get_last_updated looked the key up
AfterFreshCheck == EnsureSheet(sheets, META_WORKSHEET_NAME, MetaHeader)

\* the cache check raises (a spreadsheet request fails, or strptime rejects
\* the stored text): the exception is printed and the miss path runs
CacheReadError ==
    /\ pc = "check"
    /\ sheets_cache /\ ~force_refresh
    /\ \/ /\ is_cache_fresh(sheets, effective_keyword, today) = "Raised"
          /\ sheets' = AfterFreshCheck
          /\ cache_log' = [cache_log EXCEPT !.fresh = "raised"]
       \/ /\ sheets' = sheets
          /\ cache_log' = [cache_log EXCEPT !.fresh = "raised"]
       \/ /\ is_cache_fresh(sheets, effective_keyword, today) = "True"
          /\ sheets' = AfterFreshCheck
          /\ cache_log' = [cache_log EXCEPT !.fresh = "true", !.read = "raised"]
    /\ pc' = "fanout"
    /\ UNCHANGED <<today, sheets_cache, networks, op, keyword, force_refresh,
                   analyze_potential, min_commission, all_offers, idx, invoked, last_out,
                   scored, result, last_write, same_writes, seed, environ, writer2>>

\* the key is fresh and read_offers returns offers: they are returned
CacheHit ==
    /\ pc = "check"
    /\ sheets_cache /\ ~force_refresh
    /\ is_cache_fresh(sheets, effective_keyword, today) = "True"
    /\ LET cached_offers == read_offers(sheets, effective_keyword)
       IN  /\ cached_offers # <<>>
           /\ result' = Lst(cached_offers)
    /\ sheets' = AfterFreshCheck
    /\ cache_log' = [cache_log EXCEPT !.fresh = "true", !.read = "ok"]
    /\ pc' = "done"
    /\ UNCHANGED <<today, sheets_cache, networks, op, keyword, force_refresh,
                   analyze_potential, min_commission, all_offers, idx, invoked, last_out,
                   scored, last_write, same_writes, seed, environ, writer2>>

\* the key is not fresh, or it is fresh and read_offers returns no offer:
\* the miss path runs
CacheMiss ==
    /\ pc = "check"
    /\ sheets_cache /\ ~force_refresh
    /\ \/ /\ is_cache_fresh(sheets, effective_keyword, today) = "False"
          /\ cache_log' = [cache_log EXCEPT !.fresh = "false"]
       \/ /\ is_cache_fresh(sheets, effective_keyword, today) = "True"
          /\ read_offers(sheets, effective_keyword) = <<>>
          /\ cache_log' = [cache_log EXCEPT !.fresh = "true", !.read = "empty"]
    /\ sheets' = AfterFreshCheck
    /\ pc' = "fanout"
    /\ UNCHANGED <<today, sheets_cache, networks, op, keyword, force_refresh,
                   analyze_potential, min_commission, all_offers, idx, invoked, last_out,
                   scored, result, last_write, same_writes, seed, environ, writer2>>

\* a provider loop in which a provider's exception discards what the
\* providers before it returned
ExtendOffersOrReset(offers, out) ==
    IF out = Raised THEN <<>> ELSE offers \o out.v

\* a provider loop that leaves out an offer whose advertiser an earlier
\* offer already has
ExtendOffersDedup(offers, out) ==
    IF out = Raised THEN offers
    ELSE LET Keep(o) == \A i \in 1..Len(offers) :
                           offers[i].advertiser_name # o.advertiser_name
         IN  offers \o SelectSeq(out.v, Keep)

\* a merge that puts the offers of a provider in front of the merged list
ExtendOffersInFront(offers, out) ==
    IF out = Raised THEN offers ELSE out.v \o offers

\* the body of a provider loop: all_offers.extend(offers), or the except
\* clause that prints the error and goes on
ExtendOffers(offers, out) ==
    IF out = Raised THEN offers ELSE offers \o out.v

\* one iteration of a provider loop: the provider is called; its offers
\* extend all_offers, its exception is printed
ProviderCall ==
    /\ pc = "fanout"
    /\ idx <= Len(Providers)
    /\ \E out \in ProviderOutcomes(Providers[idx]) :
          /\ all_offers' = ExtendOffers(all_offers, out)
          /\ last_out' = out
    /\ invoked' = Append(invoked, Providers[idx])
    /\ idx' = idx + 1
    /\ UNCHANGED <<sheets, today, sheets_cache, networks, pc, op, keyword,
                   force_refresh, analyze_potential, min_commission, scored,
                   cache_log, result, last_write, same_writes, seed, environ, writer2>>

\* search_all_networks after its loop: filter, sort, return
FilterSortReturn ==
    /\ pc = "fanout"
    /\ op = "all"
    /\ idx > Len(Providers)
    /\ result' = Lst(SortByYoutubeScore(FilterMinCommission(all_offers, min_commission)))
    /\ pc' = "done"
    /\ UNCHANGED <<sheets, today, sheets_cache, networks, op, keyword,
                   force_refresh, analyze_potential, min_commission,
                   all_offers, idx, invoked, last_out, scored, cache_log, last_write, same_writes, seed, environ, writer2>>

\* a search that goes to the cache write straight after the provider loops
AfterProvidersWriteFirst(analyze, offers) == "save"

\* where search_discovery_networks goes after its provider loops:
\* "if analyze_potential and all_offers" enters analyze_offers_potential,
\* else the cache write is next
AfterProviders(analyze, offers) ==
    IF analyze /\ offers # <<>> THEN "score" ELSE "save"

\* search_discovery_networks after its loops
FanoutDone ==
    /\ pc = "fanout"
    /\ op = "discovery"
    /\ idx > Len(Providers)
    /\ pc' = AfterProviders(analyze_potential, all_offers)
    /\ idx' = 1
    /\ last_out' = None
    /\ UNCHANGED <<sheets, today, sheets_cache, networks, op, keyword,
                   force_refresh, analyze_potential, min_commission,
                   all_offers, invoked, scored, cache_log, result, last_write, same_writes, seed, environ, writer2>>

\* one iteration of analyze_offers_potential (analyze_top_n = len(all_offers))
ScoreStep ==
    /\ pc = "score"
    /\ idx <= Len(all_offers)
    /\ all_offers' = [all_offers EXCEPT ![idx] = ScoreOffer(@, seed)]
    /\ idx' = idx + 1
    /\ scored' = scored + 1
    /\ UNCHANGED <<sheets, today, sheets_cache, networks, pc, op, keyword,
                   force_refresh, analyze_potential, min_commission, invoked, last_out,
                   cache_log, result, last_write, same_writes, seed, environ, writer2>>

ScoreDone ==
    /\ pc = "score"
    /\ idx > Len(all_offers)
    /\ pc' = "save"
    /\ UNCHANGED <<sheets, today, sheets_cache, networks, op, keyword,
                   force_refresh, analyze_potential, min_commission,
                   all_offers, idx, invoked, last_out, scored, cache_log, result,
                   last_write, same_writes, seed, environ, writer2>>

\* "if self.sheets_cache and all_offers": the cache write is entered
SaveBegin ==
    /\ pc = "save"
    /\ sheets_cache /\ all_offers # <<>>
    /\ pc' = "w_open"
    /\ cache_log' = [cache_log EXCEPT !.write = "started"]
    /\ UNCHANGED <<sheets, today, sheets_cache, networks, op, keyword,
                   force_refresh, analyze_potential, min_commission,
                   all_offers, idx, invoked, last_out, scored, result, last_write, same_writes, seed, environ, writer2>>

\* no cache attached or no offers: all_offers is returned without a write
SaveSkipped ==
    /\ pc = "save"
    /\ ~(sheets_cache /\ all_offers # <<>>)
    /\ result' = Lst(all_offers)
    /\ pc' = "done"
    /\ UNCHANGED <<sheets, today, sheets_cache, networks, op, keyword,
                   force_refresh, analyze_potential, min_commission,
                   all_offers, idx, invoked, last_out, scored, cache_log, last_write, same_writes, seed, environ, writer2>>

\* ------------------------------------------------------- write_offers, by step
\* ws = self._get_or_create_worksheet(keyword)
WriteOpen ==
    /\ pc = "w_open"
    /\ sheets' = EnsureSheet(sheets, tab_name, OfferHeader)
    /\ cache_log' = [cache_log EXCEPT !.before = Len(sheets[tab_name].rows)]
    /\ same_writes' = IF last_write[tab_name] = Lst(all_offers) THEN same_writes
                      ELSE [same_writes EXCEPT ![tab_name] = 0]
    /\ pc' = "w_clear"
    /\ UNCHANGED <<today, sheets_cache, networks, op, keyword, force_refresh,
                   analyze_potential, min_commission, all_offers, idx, invoked, last_out,
                   scored, result, last_write, seed, environ, writer2>>

\* ws.clear()
WriteClear ==
    /\ pc = "w_clear"
    /\ sheets' = [sheets EXCEPT ![tab_name] = Sheet(ClearSheet(@.rows))]
    /\ last_write' = [last_write EXCEPT ![tab_name] = None]
    /\ pc' = "w_header"
    /\ UNCHANGED <<today, sheets_cache, networks, op, keyword, force_refresh,
                   analyze_potential, min_commission, all_offers, idx, invoked, last_out,
                   scored, cache_log, result, same_writes, seed, environ, writer2>>

\* ws.update([self.OFFER_COLUMNS], "A1")
WriteHeader ==
    /\ pc = "w_header"
    /\ sheets' = [sheets EXCEPT ![tab_name] =
                    Sheet(UpdateRange(@.rows, 1, <<OfferHeader>>))]
    /\ pc' = IF all_offers = <<>> THEN "w_stamp" ELSE "w_rows"
    /\ last_write' = IF all_offers = <<>>
                     THEN [last_write EXCEPT ![tab_name] = Lst(<<>>)]
                     ELSE last_write
    /\ UNCHANGED <<today, sheets_cache, networks, op, keyword, force_refresh,
                   analyze_potential, min_commission, all_offers, idx, invoked, last_out,
                   scored, cache_log, result, same_writes, seed, environ, writer2>>

\* rows = [self._offer_to_row(o) for o in offers]; ws.update(rows, "A2:AE<n+1>")
OfferRows(offers) == [i \in 1..Len(offers) |-> _offer_to_row(offers[i])]

WriteRows ==
    /\ pc = "w_rows"
    /\ sheets' = [sheets EXCEPT ![tab_name] =
                    Sheet(UpdateRange(@.rows, 2, OfferRows(all_offers)))]
    /\ last_write' = [last_write EXCEPT ![tab_name] = Lst(all_offers)]
    /\ pc' = "w_stamp"
    /\ UNCHANGED <<today, sheets_cache, networks, op, keyword, force_refresh,
                   analyze_potential, min_commission, all_offers, idx, invoked, last_out,
                   scored, cache_log, result, same_writes, seed, environ, writer2>>

\* self._set_last_updated(keyword, date.today()); write_offers returns
WriteStamp ==
    /\ pc = "w_stamp"
    /\ sheets' = _set_last_updated(sheets, effective_keyword, today)
    /\ same_writes' = [same_writes EXCEPT ![tab_name] = Min(2, @ + 1)]
    /\ cache_log' = [cache_log EXCEPT !.write = "ok"]
    /\ result' = IF op = "discovery" THEN Lst(all_offers) ELSE None
    /\ pc' = "done"
    /\ UNCHANGED <<today, sheets_cache, networks, op, keyword, force_refresh,
                   analyze_potential, min_commission, all_offers, idx, invoked, last_out,
                   scored, last_write, seed, environ, writer2>>

\* a search that lets the exception of write_offers reach its caller
WriteFailsRaises ==
    /\ pc \in WritePcs
    /\ cache_log' = [cache_log EXCEPT !.write = "raised"]
    /\ same_writes' = [same_writes EXCEPT ![tab_name] = 0]
    /\ result' = Raised
    /\ pc' = "done"
    /\ UNCHANGED <<sheets, today, sheets_cache, networks, op, keyword,
                   force_refresh, analyze_potential, min_commission,
                   all_offers, idx, invoked, last_out, scored, last_write, seed,
                   environ, writer2>>

\* a spreadsheet request of write_offers raises: search_discovery_networks
\* prints the error and returns all_offers; a direct caller gets the exception
WriteFails ==
    /\ pc \in WritePcs
    /\ cache_log' = [cache_log EXCEPT !.write = "raised"]
    /\ same_writes' = [same_writes EXCEPT ![tab_name] = 0]
    /\ result' = IF op = "discovery" THEN Lst(all_offers) ELSE Raised
    /\ pc' = "done"
    /\ UNCHANGED <<sheets, today, sheets_cache, networks, op, keyword,
                   force_refresh, analyze_potential, min_commission,
                   all_offers, idx, invoked, last_out, scored, last_write, seed, environ, writer2>>

\* the call has returned; the caller takes the result
Return ==
    /\ pc = "done"
    /\ pc' = "idle"
    /\ op' = "none"
    /\ keyword' = NoKeyword
    /\ force_refresh' = FALSE
    /\ analyze_potential' = FALSE
    /\ min_commission' = None
    /\ all_offers' = <<>>
    /\ idx' = 0
    /\ invoked' = <<>>
    /\ last_out' = None
    /\ scored' = 0
    /\ cache_log' = NoLog
    /\ result' = None
    /\ UNCHANGED <<sheets, today, sheets_cache, networks, last_write, same_writes, seed, environ, writer2>>

\* midnight passes: date.today() moves to the next day.  date.today() is
\* read by is_cache_fresh (the cache check) and by write_offers when it stamps
\* freshness, so midnight is placed between two calls or inside a call just
\* before the stamp; every other placement reads the same dates
Tick ==
    /\ pc \in {"idle", "w_stamp"}
    /\ today < MaxDay
    /\ today' = today + 1
    /\ UNCHANGED <<sheets, sheets_cache, networks, pc, op, keyword,
                   force_refresh, analyze_potential, min_commission,
                   all_offers, idx, invoked, last_out, scored, cache_log, result,
                   last_write, same_writes, seed, environ, writer2>>

Next ==
    \/ CallDiscovery
    \/ CallSearchAll
    \/ CacheSkipped
    \/ CacheReadError
    \/ CacheHit
    \/ CacheMiss
    \/ ProviderCall
    \/ FilterSortReturn
    \/ FanoutDone
    \/ ScoreStep
    \/ ScoreDone
    \/ SaveBegin
    \/ SaveSkipped
    \/ WriteOpen
    \/ WriteClear
    \/ WriteHeader
    \/ WriteRows
    \/ WriteStamp
    \/ WriteFails
    \/ Return
    \/ Tick

Spec == Init /\ [][Next]_vars

\* ------------------------------------------- SheetsCacheService called directly
\* the offer lists handed to write_offers directly: none, an offer as a
\* provider built it, offers the Scoring Engine has scored
CacheLists ==
    { <<>>,
      <<OfferA1>>,
      <<ScoreOffer(OfferI1, "lo"), OfferV1>> }

\* a caller starts write_offers(keyword, offers)
CallWrite ==
    /\ pc = "idle"
    /\ \E k \in CacheKeys, offers \in CacheLists :
          /\ keyword' = k
          /\ all_offers' = offers
    /\ op' = "write_offers"
    /\ pc' = "w_open"
    /\ cache_log' = [NoLog EXCEPT !.write = "started"]
    /\ UNCHANGED <<sheets, today, sheets_cache, networks, force_refresh,
                   analyze_potential, min_commission, idx, invoked, last_out,
                   scored, result, last_write, same_writes, seed, environ, writer2>>

\* read_offers(keyword), a spreadsheet request of which may raise
CallRead ==
    /\ pc = "idle"
    /\ \E k \in CacheKeys :
          /\ keyword' = k
          /\ \/ /\ result' = Lst(read_offers(sheets, k))
                /\ cache_log' = [NoLog EXCEPT !.read = "ok"]
             \/ /\ result' = Raised
                /\ cache_log' = [NoLog EXCEPT !.read = "raised"]
    /\ op' = "read_offers"
    /\ pc' = "done"
    /\ UNCHANGED <<sheets, today, sheets_cache, networks, force_refresh,
                   analyze_potential, min_commission, all_offers, idx, invoked,
                   last_out, scored, last_write, same_writes, seed, environ, writer2>>

\* is_cache_fresh(keyword)
CallIsFresh ==
    /\ pc = "idle"
    /\ \E k \in CacheKeys :
          /\ keyword' = k
          /\ result' = Str(is_cache_fresh(sheets, k, today))
    /\ sheets' = EnsureSheet(sheets, META_WORKSHEET_NAME, MetaHeader)
    /\ op' = "is_cache_fresh"
    /\ pc' = "done"
    /\ UNCHANGED <<today, sheets_cache, networks, force_refresh,
                   analyze_potential, min_commission, all_offers, idx, invoked,
                   last_out, scored, cache_log, last_write, same_writes, seed, environ, writer2>>

InitCache ==
    /\ Init
    /\ sheets_cache = TRUE
    /\ networks = <<>>
    /\ seed = "lo"

NextCache ==
    \/ CallWrite
    \/ CallRead
    \/ CallIsFresh
    \/ WriteOpen
    \/ WriteClear
    \/ WriteHeader
    \/ WriteRows
    \/ WriteStamp
    \/ WriteFails
    \/ Return
    \/ Tick

SpecCache == InitCache /\ [][NextCache]_vars

\* ======================================================================
\* Properties of the cache and of the searches
\* ======================================================================
\* is_cache_fresh for the key of the running call, read now
FreshNow == is_cache_fresh(sheets, effective_keyword, today)

\* the table of the running call's key holds the header and one row per
\* offer of the list, in order, and nothing else
TableIs(offers) ==
    /\ sheets[tab_name].ex
    /\ sheets[tab_name].rows = <<OfferHeader>> \o OfferRows(offers)

\* the freshness table holds a data row for the key
HasRecord(k) ==
    /\ sheets[META_WORKSHEET_NAME].ex
    /\ \E i \in 2..Len(sheets[META_WORKSHEET_NAME].rows) :
          Cell(sheets[META_WORKSHEET_NAME].rows[i], 1) = Str(_sanitize_tab_name(k))

\* C1: a search_discovery_networks call with the cache attached and
\* force_refresh unset that finds its key fresh (no cache request failing)
\* returns at once, having invoked no provider, and its result is exactly the
\* list of offers the last write stored for the key.
C1_FreshHitReturnsStored ==
    (op = "discovery" /\ cache_log.fresh = "true" /\ cache_log.read # "raised")
        => (pc = "done" /\ invoked = <<>> /\ result = last_write[tab_name])

\* C2: for every key, is_cache_fresh is false while the freshness table has
\* no record for the key, true when write_offers for the key has just
\* completed, and false whenever the stored date is not today's date.
C2_FreshnessStates ==
    \A k \in CacheKeys :
        /\ ~HasRecord(k) => is_cache_fresh(sheets, k, today) = "False"
        /\ (pc = "done" /\ op = "write_offers" /\ keyword = k /\ cache_log.write = "ok")
              => is_cache_fresh(sheets, k, today) = "True"
        /\ (get_last_updated(sheets, k).t = "num" /\ get_last_updated(sheets, k).v # today)
              => is_cache_fresh(sheets, k, today) = "False"

C5_FreshEmptyTableHits ==
    (op = "discovery" /\ cache_log.fresh = "true" /\ cache_log.read # "raised"
       /\ cache_log.write = "none" /\ sheets[tab_name].rows = <<OfferHeader>>)
        => (pc = "done" /\ invoked = <<>> /\ result = Lst(<<>>))

\* C6: after write_offers has completed twice in a row with the same list
\* for a key, read_offers for the key returns a list of the same length
\* whose offers equal the written ones field by field (absent fields absent).
C6_WriteWriteRead ==
    (pc = "done" /\ op = "read_offers" /\ cache_log.read = "ok"
       /\ same_writes[tab_name] = 2)
        => result = last_write[tab_name]

\* C7: when write_offers completes, the key's table is the header row
\* followed by one row per offer of the written list, in list order; no row
\* of an earlier write is left.
C7_WholeTableReplace ==
    (pc = "done" /\ cache_log.write = "ok") => TableIs(all_offers)

\* C7, reached: a write completed over a table that held more rows than the
\* written list needs
C7_Witness ==
    /\ pc = "done" /\ op = "write_offers" /\ cache_log.write = "ok"
    /\ cache_log.before > Len(all_offers) + 1
    /\ TableIs(all_offers)

AllPresent(offers, among) ==
    \A i \in 1..Len(offers) : \E j \in 1..Len(among) : among[j] = offers[i]

\* C9: in the loops of search_all_networks and of the miss path of
\* search_discovery_networks, a provider that raises adds nothing and removes
\* nothing, the loop goes on to the next provider and ends only when every
\* registered provider has been invoked; scoring keeps every merged offer; the
\* call returns a list, never an exception, that holds the merged offers
\* (for search_all_networks, those the min_commission filter keeps).
C9_ProviderIsolation ==
    [][ /\ (pc = "fanout" /\ invoked' # invoked)
              => /\ pc' = "fanout"
                 /\ invoked' = Append(invoked, Providers[idx])
                 /\ \E out \in ProviderOutcomes(Providers[idx]) :
                       /\ last_out' = out
                       /\ all_offers' = all_offers \o (IF out = Raised THEN <<>> ELSE out.v)
        /\ (pc = "fanout" /\ pc' # "fanout") => invoked = Providers
        /\ (pc = "score" /\ pc' = "score")
              => /\ Len(all_offers') = Len(all_offers)
                 /\ \A i \in 1..Len(all_offers) : all_offers'[i].id = all_offers[i].id
        /\ (pc # "done" /\ pc' = "done" /\ op = "discovery" /\ cache_log'.read # "ok")
              => (invoked = Providers /\ result' = Lst(all_offers))
        /\ (pc # "done" /\ pc' = "done" /\ op = "all")
              => /\ invoked = Providers
                 /\ result'.t = "list"
                 /\ AllPresent(FilterMinCommission(all_offers, min_commission), result'.v)
                 /\ AllPresent(result'.v, all_offers)
      ]_vars

\* C9, reached: the last provider of a discovery search raised, every
\* provider was invoked and the offers of the earlier providers are merged
C9_Witness ==
    /\ pc = "fanout" /\ op = "discovery"
    /\ last_out = Raised
    /\ invoked = Providers /\ Len(invoked) >= 2
    /\ all_offers # <<>>

\* C10: in a search_discovery_networks call, the key's table and the key's
\* freshness record change only in the steps of write_offers, which run when
\* every provider has been invoked and has returned and, where scoring is
\* asked for, every offer has been scored.
C10_WriteAfterFanoutAndScoring ==
    [][ (op = "discovery"
           /\ \/ sheets'[tab_name] # sheets[tab_name]
              \/ get_last_updated(sheets', effective_keyword)
                    # get_last_updated(sheets, effective_keyword))
          => /\ pc \in WritePcs
             /\ invoked = Providers
             /\ (analyze_potential /\ all_offers # <<>>) => scored = Len(all_offers)
      ]_vars

\* C10, reached: the write of a scored three-provider search is about to
\* stamp freshness
C10_Witness ==
    /\ pc = "w_stamp" /\ op = "discovery" /\ analyze_potential
    /\ Len(invoked) = 3 /\ invoked = Providers
    /\ scored >= 2 /\ scored = Len(all_offers)

\* the offers are in descending order of youtube_score, an absent score
\* counting as 0
SortedByScore(offers) ==
    \A i \in 1..(Len(offers) - 1) : SortKey(offers[i]) >= SortKey(offers[i + 1])

\* C11: the list a miss-path search_discovery_networks call returns is in
\* descending order of youtube_score (absent counting as 0), whatever the
\* order in which the providers were called.
C11_DiscoveryResultSorted ==
    (pc = "done" /\ op = "discovery" /\ cache_log.read # "ok")
        => (result.t = "list" /\ SortedByScore(result.v))

\* how many offers of a list have the id and the network
CountOf(offers, id, network) ==
    Cardinality({i \in 1..Len(offers) :
                    offers[i].id = id /\ offers[i].network = network})

\* C12: on the miss path of search_discovery_networks every offer a provider
\* returns is added to the merged list as often as the provider returned it
\* (nothing is left out because another offer has its advertiser), the call
\* returns the merged list, and the cache write stores one row per merged
\* offer.
C12_NoDeduplication ==
    [][ /\ (pc = "fanout" /\ op = "discovery" /\ invoked' # invoked
              /\ last_out'.t = "list")
              => /\ Len(all_offers') = Len(all_offers) + Len(last_out'.v)
                 /\ \A i \in 1..Len(all_offers') :
                       CountOf(all_offers', all_offers'[i].id, all_offers'[i].network)
                         = CountOf(all_offers, all_offers'[i].id, all_offers'[i].network)
                           + CountOf(last_out'.v, all_offers'[i].id, all_offers'[i].network)
        /\ (pc # "done" /\ pc' = "done" /\ op = "discovery" /\ cache_log'.read # "ok")
              => /\ result'.t = "list"
                 /\ Len(result'.v) = Len(all_offers)
                 /\ \A i \in 1..Len(all_offers) :
                       CountOf(result'.v, all_offers[i].id, all_offers[i].network)
                         = CountOf(all_offers, all_offers[i].id, all_offers[i].network)
        /\ (pc = "w_rows" /\ pc' = "w_stamp" /\ op = "discovery")
              => /\ Len(sheets'[tab_name].rows) = 1 + Len(all_offers)
                 /\ \A i \in 1..Len(all_offers) :
                       sheets'[tab_name].rows[i + 1][1] = all_offers[i].id
      ]_vars

\* C12, reached: a search returned, and wrote to the cache, two offers of
\* different providers that have the same advertiser name
C12_Witness ==
    /\ pc = "done" /\ op = "discovery" /\ cache_log.write = "ok"
    /\ result = Lst(all_offers) /\ TableIs(all_offers)
    /\ \E i, j \in 1..Len(all_offers) :
          /\ i < j
          /\ all_offers[i].advertiser_name = all_offers[j].advertiser_name
          /\ all_offers[i].network # all_offers[j].network

\* C13: a search_discovery_networks call in which is_cache_fresh, read_offers
\* or write_offers raised returns, without raising, the offers its own
\* provider fan-out and scoring computed.
C13_CacheErrorsContained ==
    (pc = "done" /\ op = "discovery"
       /\ (cache_log.fresh = "raised" \/ cache_log.read = "raised"
             \/ cache_log.write = "raised"))
        => /\ result = Lst(all_offers)
           /\ invoked = Providers
           /\ (analyze_potential /\ all_offers # <<>>) => scored = Len(all_offers)

\* C13, reached: the cache check and the cache write of one call both raised
\* and the call returned the offers it fetched
C13_Witness ==
    /\ pc = "done" /\ op = "discovery"
    /\ cache_log.fresh = "raised" /\ cache_log.write = "raised"
    /\ all_offers # <<>> /\ result = Lst(all_offers)

\* ------------------------------------------------ OfferAggregator.__init__
\* the settings Config reads from the environment
EnvNames ==
    ImpactSettings \cup {"CJ_API_KEY", "AWIN_API_KEY", "AWIN_PUBLISHER_ID",
                         "PARTNERSTACK_API_KEY", "SERPAPI_API_KEY"}

\* the attributes class Config has
ConfigAttributes ==
    EnvNames \cup {"is_impact_configured", "is_cj_configured", "is_awin_configured",
                   "is_partnerstack_configured", "is_serpapi_configured"}

\* OfferAggregator(): sheets_cache = None, then Config.is_sheets_configured()
\* outside any try, which raises AttributeError when Config has no such
\* attribute; else SheetsCacheService() inside try/except (attached, or the
\* failure printed), Impact registered when configured
Construct ==
    /\ pc = "new"
    /\ IF "is_sheets_configured" \notin ConfigAttributes
       THEN /\ pc' = "init_raised"
            /\ UNCHANGED <<sheets_cache, networks>>
       ELSE /\ pc' = "idle"
            /\ sheets_cache' \in BOOLEAN
            /\ networks' = IF ImpactSettings \subseteq environ
                           THEN <<"impact">> ELSE <<>>
    /\ UNCHANGED <<sheets, today, op, keyword, force_refresh, analyze_potential,
                   min_commission, all_offers, idx, invoked, last_out, scored,
                   cache_log, result, last_write, same_writes, seed, environ,
                   writer2>>

\* before construction, in every environment
InitBoot ==
    /\ sheets = [tab \in Tabs |-> NoSheet]
    /\ today = 1
    /\ sheets_cache = FALSE
    /\ networks = <<>>
    /\ pc = "new"
    /\ op = "none"
    /\ keyword = NoKeyword
    /\ force_refresh = FALSE
    /\ analyze_potential = FALSE
    /\ min_commission = None
    /\ all_offers = <<>>
    /\ idx = 0
    /\ invoked = <<>>
    /\ last_out = None
    /\ scored = 0
    /\ cache_log = NoLog
    /\ result = None
    /\ last_write = [tab \in Tabs |-> None]
    /\ same_writes = [tab \in Tabs |-> 0]
    /\ seed = "lo"
    /\ environ \in SUBSET EnvNames
    /\ writer2 = NoWriter

NextBoot ==
    \/ Construct

SpecBoot == InitBoot /\ [][NextBoot]_vars

\* C14: where the cache store is not configured, or connecting to it fails,
\* constructing the aggregator succeeds with no cache attached; and a
\* search_discovery_networks call of an aggregator without cache runs the
\* whole provider fan-out and makes no cache request.
C14_NoCacheMode ==
    /\ pc # "init_raised"
    /\ (pc # "new" /\ "is_sheets_configured" \notin ConfigAttributes)
          => sheets_cache = FALSE
    /\ (pc = "done" /\ op = "discovery" /\ ~sheets_cache)
          => (invoked = Providers /\ result = Lst(all_offers) /\ cache_log = NoLog)

\* the records of the table of the running call's key
TableRecords ==
    IF sheets[tab_name].ex THEN get_all_records(sheets[tab_name].rows) ELSE <<>>

\* C15: read_offers returns, in table order, the offer of every row that
\* parses into an Offer, and leaves out exactly the rows that do not: a row
\* that fails to parse does not make the read fail or drop the other rows.
C15_MalformedRowSkipped ==
    (pc = "done" /\ op = "read_offers" /\ cache_log.read = "ok")
        => LET parsed == [i \in 1..Len(TableRecords) |-> _row_to_offer(TableRecords[i])]
               Parses(o) == o # None
           IN  result = Lst(SelectSeq(parsed, Parses))

\* C15, reached: the table holds a row that does not parse and a row that
\* does, and the read returned the offer of the second
C15_Witness ==
    /\ pc = "done" /\ op = "read_offers" /\ cache_log.read = "ok"
    /\ Len(TableRecords) >= 2
    /\ \E i \in 1..Len(TableRecords) : _row_to_offer(TableRecords[i]) = None
    /\ result.t = "list" /\ Len(result.v) = Len(TableRecords) - 1

\* ------------------------------------- two processes inside write_offers
\* The second process runs write_offers(writer2.keyword, writer2.offers) on
\* the same spreadsheet; each request to the spreadsheet is one step.  The
\* history variables follow the first process only.
tab2 == _sanitize_tab_name(writer2.keyword)

\* ws = self._get_or_create_worksheet(keyword)
Writer2Open ==
    /\ writer2.pc = "w_open"
    /\ writer2' = [writer2 EXCEPT !.pc = "w_clear"]
    /\ sheets' = EnsureSheet(sheets, tab2, OfferHeader)
    /\ UNCHANGED <<today, sheets_cache, networks, pc, op, keyword, force_refresh,
                   analyze_potential, min_commission, all_offers, idx, invoked,
                   last_out, scored, cache_log, result, last_write, same_writes,
                   seed, environ>>

\* ws.clear()
Writer2Clear ==
    /\ writer2.pc = "w_clear"
    /\ writer2' = [writer2 EXCEPT !.pc = "w_header"]
    /\ sheets' = [sheets EXCEPT ![tab2] = Sheet(ClearSheet(@.rows))]
    /\ UNCHANGED <<today, sheets_cache, networks, pc, op, keyword, force_refresh,
                   analyze_potential, min_commission, all_offers, idx, invoked,
                   last_out, scored, cache_log, result, last_write, same_writes,
                   seed, environ>>

\* ws.update([self.OFFER_COLUMNS], "A1")
Writer2Header ==
    /\ writer2.pc = "w_header"
    /\ writer2' = [writer2 EXCEPT !.pc = IF writer2.offers = <<>> THEN "w_stamp" ELSE "w_rows"]
    /\ sheets' = [sheets EXCEPT ![tab2] = Sheet(UpdateRange(@.rows, 1, <<OfferHeader>>))]
    /\ UNCHANGED <<today, sheets_cache, networks, pc, op, keyword, force_refresh,
                   analyze_potential, min_commission, all_offers, idx, invoked,
                   last_out, scored, cache_log, result, last_write, same_writes,
                   seed, environ>>

\* ws.update(rows, "A2:AE<n+1>")
Writer2Rows ==
    /\ writer2.pc = "w_rows"
    /\ writer2' = [writer2 EXCEPT !.pc = "w_stamp"]
    /\ sheets' = [sheets EXCEPT ![tab2] =
                    Sheet(UpdateRange(@.rows, 2, OfferRows(writer2.offers)))]
    /\ UNCHANGED <<today, sheets_cache, networks, pc, op, keyword, force_refresh,
                   analyze_potential, min_commission, all_offers, idx, invoked,
                   last_out, scored, cache_log, result, last_write, same_writes,
                   seed, environ>>

\* self._set_last_updated(keyword, date.today())
Writer2Stamp ==
    /\ writer2.pc = "w_stamp"
    /\ writer2' = [writer2 EXCEPT !.pc = "done"]
    /\ sheets' = _set_last_updated(sheets, writer2.keyword, today)
    /\ UNCHANGED <<today, sheets_cache, networks, pc, op, keyword, force_refresh,
                   analyze_potential, min_commission, all_offers, idx, invoked,
                   last_out, scored, cache_log, result, last_write, same_writes,
                   seed, environ>>

\* two processes call write_offers on one key at the same time
StartRace ==
    /\ pc = "idle" /\ writer2.pc = "off"
    /\ \E k \in CacheKeys, offersA \in CacheLists, offersB \in CacheLists :
          /\ keyword' = k
          /\ all_offers' = offersA
          /\ writer2' = [pc |-> "w_open", keyword |-> k, offers |-> offersB]
    /\ op' = "write_offers"
    /\ pc' = "w_open"
    /\ cache_log' = [NoLog EXCEPT !.write = "started"]
    /\ UNCHANGED <<sheets, today, sheets_cache, networks, force_refresh,
                   analyze_potential, min_commission, idx, invoked, last_out,
                   scored, result, last_write, same_writes, seed, environ>>

NextRace ==
    \/ StartRace
    \/ WriteOpen
    \/ WriteClear
    \/ WriteHeader
    \/ WriteRows
    \/ WriteStamp
    \/ Writer2Open
    \/ Writer2Clear
    \/ Writer2Header
    \/ Writer2Rows
    \/ Writer2Stamp

SpecRace == InitCache /\ [][NextRace]_vars

\* C16: when two processes have run write_offers(k, A) and write_offers(k, B)
\* at the same time, their requests interleaved in any order, the table of k
\* is the header with exactly A's rows or the header with exactly B's rows.
C16_LastWriteWins ==
    (pc = "done" /\ writer2.pc = "done")
        => (TableIs(all_offers)
              \/ sheets[tab_name].rows = <<OfferHeader>> \o OfferRows(writer2.offers))

\* ------------------------------------------- a run of write_offers calls
\* the offer lists of such a run
StampLists == {<<>>, <<OfferA1>>}

\* a caller starts write_offers(keyword, offers)
CallWriteKeys ==
    /\ pc = "idle"
    /\ \E k \in StampKeys, offers \in StampLists :
          /\ keyword' = k
          /\ all_offers' = offers
    /\ op' = "write_offers"
    /\ pc' = "w_open"
    /\ cache_log' = [NoLog EXCEPT !.write = "started"]
    /\ UNCHANGED <<sheets, today, sheets_cache, networks, force_refresh,
                   analyze_potential, min_commission, idx, invoked, last_out,
                   scored, result, last_write, same_writes, seed, environ, writer2>>

NextKeys ==
    \/ CallWriteKeys
    \/ WriteOpen
    \/ WriteClear
    \/ WriteHeader
    \/ WriteRows
    \/ WriteStamp
    \/ WriteFails
    \/ Return
    \/ Tick

SpecKeys == InitCache /\ [][NextKeys]_vars

\* the rows of the freshness table whose first cell is the tab name
FreshnessRows(sh, tab) ==
    {i \in 1..Len(sh[META_WORKSHEET_NAME].rows) :
        Cell(sh[META_WORKSHEET_NAME].rows[i], 1) = Str(tab)}

\* the second cell of the tab's row of the freshness table, None without a row
StoredDate(sh, tab) ==
    IF FreshnessRows(sh, tab) = {} THEN None
    ELSE Cell(sh[META_WORKSHEET_NAME].rows[CHOOSE i \in FreshnessRows(sh, tab) : TRUE], 2)

\* C17: over any sequence of write_offers calls the freshness table never
\* holds two rows for one tab name; the date of a tab's row changes only when
\* a write for that tab stamps it, and a completed write leaves the row of
\* its tab with the date of that write.
C17_OneFreshnessRowPerKey ==
    [][ \A tab \in KeyTabs :
          /\ Cardinality(FreshnessRows(sheets', tab)) <= 1
          /\ (FreshnessRows(sheets, tab) # {}
                /\ StoredDate(sheets', tab) # StoredDate(sheets, tab))
                => (pc = "w_stamp" /\ pc' = "done" /\ tab = tab_name)
          /\ (pc = "w_stamp" /\ pc' = "done" /\ cache_log'.write = "ok"
                /\ tab = tab_name)
                => StoredDate(sheets', tab) = Str(strftime(today))
      ]_vars

\* C17, reached: the second completed write for a key has updated the key's
\* row in place, next to the row of another key
C17_Witness ==
    /\ pc = "done" /\ op = "write_offers" /\ cache_log.write = "ok"
    /\ same_writes[tab_name] = 2 /\ today = 2
    /\ StoredDate(sheets, tab_name) = Str(strftime(2))
    /\ FreshnessRows(sheets, tab_name) = {2}
    /\ \E tab \in KeyTabs \ {tab_name} : FreshnessRows(sheets, tab) = {3}

\* the offers of a list the threshold t admits: commission value present and
\* at least t
Admitted(offers, t) ==
    LET Keep(o) == o.commission_value # None /\ o.commission_value.v >= t.v
    IN  SelectSeq(offers, Keep)

\* C18: search_all_networks called with a min_commission threshold t, 0
\* included, returns no offer whose commission value is absent or below t,
\* and returns every provider offer whose commission value is present and at
\* least t.
C18_MinCommissionFilter ==
    (pc = "done" /\ op = "all" /\ min_commission # None)
        => /\ result.t = "list"
           /\ Admitted(result.v, min_commission) = result.v
           /\ AllPresent(Admitted(all_offers, min_commission), result.v)

\* C19: the list search_all_networks returns is in descending order of
\* youtube_score, an absent score counting as 0.
C19_AllNetworksResultSorted ==
    (pc = "done" /\ op = "all") => (result.t = "list" /\ SortedByScore(result.v))

\* C19, reached: search_all_networks has returned two offers of different
\* scores
C19_Witness ==
    /\ pc = "done" /\ op = "all" /\ result.t = "list"
    /\ Len(result.v) >= 2
    /\ SortKey(result.v[1]) > SortKey(result.v[2])

\* ------------------------------------------- Offer.calculate_youtube_score
\* the sum calculate_youtube_score builds before rounding, in 1/300 of a
\* point (epc * 20, commission_value / 2, commission_value * 2 and
\* popularity_score / 3 are then whole numbers), capped at 100 points
ScoreSum(offer) ==
    LET epc_part ==
            IF Truthy(offer.epc) THEN Min(offer.epc.v * 6000, 12000) ELSE 0
        commission_part ==
            IF Truthy(offer.commission_value)
            THEN CASE offer.commission_type = Str("CPA") ->
                          Min(offer.commission_value.v * 150, 9000)
                   [] offer.commission_type = Str("CPS") ->
                          Min(offer.commission_value.v * 600, 9000)
                   [] OTHER -> 0
            ELSE 0
        popularity_part ==
            IF Truthy(offer.popularity_score)
            THEN Min(offer.popularity_score.v * 100, 9000)
            ELSE 0
    IN  Min(epc_part + commission_part + popularity_part, 30000)

\* round(x, 2) of a sum of x/300 points, in 1/100 of a point: the nearest
\* hundredth (a third is never halfway between two hundredths)
Round2(x) == (2 * x + 3) \div 6

\* the score in 1/100 of a point
calculate_youtube_score(offer) == Round2(ScoreSum(offer))

\* the values of epc, commission_value and popularity_score tried: absent,
\* negative, zero, below the cap of the component, at it, above it
EpcValues == {None, Num(-1), Num(0), Num(1), Num(2), Num(3)}
CommissionValues == {None, Num(-10), Num(0), Num(7), Num(15), Num(60), Num(80)}
PopularityValues == {None, Num(-30), Num(0), Num(10), Num(90), Num(120)}
CommissionTypes ==
    {None, Str("CPA"), Str("CPS"), Str("Hybrid"), Str("Fixed"), Str("Percentage")}

ScoreInputs ==
    {NewOffer([id |-> Str("1"), name |-> Str("Offer"), network |-> Str("impact"),
               advertiser_name |-> Str("Brand"), advertiser_id |-> Str("1"),
               commission_type |-> ct, commission_value |-> cv, epc |-> e,
               popularity_score |-> p]) :
        e \in EpcValues, cv \in CommissionValues, p \in PopularityValues,
        ct \in CommissionTypes}

\* an Offer whose score is about to be calculated
InitScore ==
    /\ sheets = [tab \in Tabs |-> NoSheet]
    /\ today = 1
    /\ sheets_cache = FALSE
    /\ networks = <<>>
    /\ pc = "score"
    /\ op = "calculate_youtube_score"
    /\ keyword = NoKeyword
    /\ force_refresh = FALSE
    /\ analyze_potential = FALSE
    /\ min_commission = None
    /\ \E offer \in ScoreInputs : all_offers = <<offer>>
    /\ idx = 0
    /\ invoked = <<>>
    /\ last_out = None
    /\ scored = 0
    /\ cache_log = NoLog
    /\ result = None
    /\ last_write = [tab \in Tabs |-> None]
    /\ same_writes = [tab \in Tabs |-> 0]
    /\ seed = "lo"
    /\ environ = {}
    /\ writer2 = NoWriter

\* offer.calculate_youtube_score(): sets offer.youtube_score and returns it
CalculateYoutubeScore ==
    /\ pc = "score"
    /\ LET score == calculate_youtube_score(all_offers[1])
       IN  /\ all_offers' = <<[all_offers[1] EXCEPT !.youtube_score = Num(score)]>>
           /\ result' = Num(score)
    /\ pc' = "done"
    /\ UNCHANGED <<sheets, today, sheets_cache, networks, op, keyword,
                   force_refresh, analyze_potential, min_commission, idx,
                   invoked, last_out, scored, cache_log, last_write,
                   same_writes, seed, environ, writer2>>

NextScore ==
    \/ CalculateYoutubeScore

SpecScore == InitScore /\ [][NextScore]_vars

\* a is below b in one numeric field: both values present, a's the smaller
\* or equal
FieldLeq(a, b, field) == a[field] # None /\ b[field] # None /\ a[field].v <= b[field].v

\* b is the offer a with epc, or commission_value, or popularity_score raised
\* and nothing else changed
RaisedInOneInput(a, b) ==
    \E field \in {"epc", "commission_value", "popularity_score"} :
        /\ FieldLeq(a, b, field)
        /\ b = [a EXCEPT ![field] = b[field]]

\* the score range holds for the offer just scored
C20_Range == result.v >= 0 /\ result.v <= 10000

\* the score of the offer just scored is not above the score of any offer
\* that has one input raised
C20_Monotone ==
    \A b \in ScoreInputs :
        RaisedInOneInput([all_offers[1] EXCEPT !.youtube_score = None], b)
            => result.v <= calculate_youtube_score(b)

\* C20: for every Offer (epc, commission_value and popularity_score present,
\* absent, zero or negative, every commission kind) calculate_youtube_score
\* returns a value between 0 and 100 points, and the value does not go down
\* when epc, commission_value (commission kind fixed) or popularity_score goes
\* up with the other inputs fixed.
C20_ScoreRangeAndMonotone ==
    (pc = "done" /\ op = "calculate_youtube_score") => (C20_Range /\ C20_Monotone)

\* the commission component for the kinds the providers write, "Fixed" and
\* "Percentage", in 1/300 of a point: min(v / 2, 30) and min(v * 2, 30), and
\* nothing for an absent value
FixedPercentageComponent(offer) ==
    CASE offer.commission_value = None -> 0
      [] offer.commission_type = Str("Fixed") ->
             Min(offer.commission_value.v * 150, 9000)
      [] offer.commission_type = Str("Percentage") ->
             Min(offer.commission_value.v * 600, 9000)
      [] OTHER -> 0

\* C21: an offer of commission kind "Fixed" with value v gets min(v/2, 30)
\* points for its commission, one of kind "Percentage" gets min(v*2, 30), and
\* an absent value gets 0; seen on offers with neither epc nor popularity,
\* whose score is the commission component alone.
C21_FixedPercentageComponent ==
    (/\ pc = "done" /\ op = "calculate_youtube_score"
     /\ all_offers[1].epc = None /\ all_offers[1].popularity_score = None
     /\ all_offers[1].commission_type \in {Str("Fixed"), Str("Percentage")})
        => result.v = Round2(FixedPercentageComponent(all_offers[1]))

\* --------------------------------- KeywordAnalyzer.analyze_offer_potential
\* the commission values and the offers the potential analysis is tried on:
\* absent, zero, below the cap of either kind, at it, above it
PotentialValues == {None, Num(0), Num(5), Num(10), Num(25), Num(50), Num(80)}

PotentialInputs ==
    {NewOffer([id |-> Str("1"), name |-> n, network |-> Str("affbank"),
               advertiser_name |-> Str("Brand"), advertiser_id |-> Str("1"),
               commission_type |-> ct, commission_value |-> cv]) :
        n \in {Str("NordVPN Affiliate Program"), Str("PIN-UP Casino - EC CPA")},
        cv \in PotentialValues, ct \in CommissionTypes}

\* an Offer whose potential is about to be analysed
InitPotential ==
    /\ sheets = [tab \in Tabs |-> NoSheet]
    /\ today = 1
    /\ sheets_cache = FALSE
    /\ networks = <<>>
    /\ pc = "potential"
    /\ op = "analyze_offer_potential"
    /\ keyword = NoKeyword
    /\ force_refresh = FALSE
    /\ analyze_potential = TRUE
    /\ min_commission = None
    /\ \E offer \in PotentialInputs : all_offers = <<offer>>
    /\ idx = 0
    /\ invoked = <<>>
    /\ last_out = None
    /\ scored = 0
    /\ cache_log = NoLog
    /\ result = None
    /\ last_write = [tab \in Tabs |-> None]
    /\ same_writes = [tab \in Tabs |-> 0]
    /\ seed \in Seeds
    /\ environ = {}
    /\ writer2 = NoWriter

\* keyword_analyzer.analyze_offer_potential(offer.name,
\* offer.commission_value, offer.commission_type) returns its tuple
AnalyzeOfferPotential ==
    /\ pc = "potential"
    /\ result' = [t |-> "tuple",
                  v |-> analyze_offer_potential(all_offers[1].name,
                            all_offers[1].commission_value,
                            all_offers[1].commission_type, seed)]
    /\ pc' = "done"
    /\ UNCHANGED <<sheets, today, sheets_cache, networks, op, keyword,
                   force_refresh, analyze_potential, min_commission,
                   all_offers, idx, invoked, last_out, scored, cache_log,
                   last_write, same_writes, seed, environ, writer2>>

NextPotential ==
    \/ AnalyzeOfferPotential

SpecPotential == InitPotential /\ [][NextPotential]_vars

\* the base score as a function of the commission alone: 50 without a value,
\* min(100, v/50*100) for kind Fixed, min(100, v*10) for kind Percentage, 50
\* for any other kind
BaseScoreOfCommission(commission_value, commission_type) ==
    CASE commission_value = None -> 50
      [] commission_type = Str("Fixed") -> Min(100, (commission_value.v * 100) \div 50)
      [] commission_type = Str("Percentage") -> Min(100, commission_value.v * 10)
      [] OTHER -> 50

\* C22: the score analyze_offer_potential returns depends on the commission
\* only: 50 and rating "Fair" without a commission value, min(100, v/50*100)
\* for kind Fixed and every v >= 0, min(100, v*10) for kind Percentage, 50
\* for any other kind.
C22_BaseScoreFromCommission ==
    (pc = "done" /\ op = "analyze_offer_potential")
        => /\ result.v.score = BaseScoreOfCommission(all_offers[1].commission_value,
                                                     all_offers[1].commission_type)
           /\ all_offers[1].commission_value = None => result.v.rating = "Fair"

\* ------------------------ BrandMetricsAnalyzer.calculate_scalability_score
\* the arguments the score is tried on: commission values around the band
\* limits, absent and zero; the labels get_competition_level returns and None;
\* the days estimate_cookie_duration returns; visits estimate_traffic can
\* draw (1000..500000), either side of the band limits after formatting; and
\* authorities estimate_domain_authority can draw (20..90)
ScalabilityCommissions == {None, Num(0), Num(10), Num(20), Num(50), Num(100)}
CompetitionLevels == {None, Str("Very Low"), Str("Low"), Str("Medium"), Str("High")}
CookieDurations == {30, 45, 60, 90}
TrafficDraws == {1000, 9499, 9500, 49499, 49500, 99499, 99500, 500000}
DomainAuthorities == {20, 34, 35, 49, 50, 69, 70, 90}

ScalabilityArgs ==
    [t : {"args"}, commission_value : ScalabilityCommissions,
     competition_level : CompetitionLevels, cookie_duration : CookieDurations,
     traffic : TrafficDraws, domain_authority : DomainAuthorities]

\* the arguments of a calculate_scalability_score call about to be made
InitScalability ==
    /\ sheets = [tab \in Tabs |-> NoSheet]
    /\ today = 1
    /\ sheets_cache = FALSE
    /\ networks = <<>>
    /\ pc = "scalability"
    /\ op = "calculate_scalability_score"
    /\ keyword = NoKeyword
    /\ force_refresh = FALSE
    /\ analyze_potential = TRUE
    /\ min_commission = None
    /\ all_offers = <<>>
    /\ idx = 0
    /\ invoked = <<>>
    /\ last_out \in ScalabilityArgs
    /\ scored = 0
    /\ cache_log = NoLog
    /\ result = None
    /\ last_write = [tab \in Tabs |-> None]
    /\ same_writes = [tab \in Tabs |-> 0]
    /\ seed = "lo"
    /\ environ = {}
    /\ writer2 = NoWriter

\* the score of one set of arguments, the traffic passed as the text
\* estimate_traffic formats and read back inside the function
ScalabilityOf(a) ==
    calculate_scalability_score(a.commission_value, a.competition_level,
        a.cookie_duration, TrafficNum(a.traffic), a.domain_authority)

\* calculate_scalability_score(commission_value, competition_level,
\* cookie_duration, traffic_monthly, domain_authority) returns
CalculateScalabilityScore ==
    /\ pc = "scalability"
    /\ result' = Num(ScalabilityOf(last_out))
    /\ pc' = "done"
    /\ UNCHANGED <<sheets, today, sheets_cache, networks, op, keyword,
                   force_refresh, analyze_potential, min_commission,
                   all_offers, idx, invoked, last_out, scored, cache_log,
                   last_write, same_writes, seed, environ, writer2>>

NextScalability ==
    \/ CalculateScalabilityScore

SpecScalability == InitScalability /\ [][NextScalability]_vars

\* the commission band: unknown 10, else 30, 25, 15 or 5 by the value
CommissionBand(commission_value) ==
    CASE commission_value = None -> 10
      [] commission_value.v >= 100 -> 30
      [] commission_value.v >= 50  -> 25
      [] commission_value.v >= 20  -> 15
      [] OTHER -> 5

\* the competition band: unknown 10
CompetitionBand(competition_level) ==
    CASE competition_level = Str("Very Low") -> 25
      [] competition_level = Str("Low")      -> 20
      [] competition_level = Str("Medium")   -> 12
      [] competition_level = Str("High")     -> 5
      [] OTHER -> 10

\* the traffic band of the estimate the formatted text states
TrafficBand(traffic) ==
    LET estimate == Thousands(traffic) * 1000
    IN  CASE estimate >= 100000 -> 15
          [] estimate >= 50000  -> 12
          [] estimate >= 10000  -> 8
          [] OTHER -> 5

\* the band of a domain authority: which of the limits 70, 50, 35 it reaches
AuthorityBand(domain_authority) ==
    Cardinality({limit \in {35, 50, 70} : domain_authority >= limit})

\* the score is the sum of the five components and lies in 0..100
C23_SumOfBands ==
    LET a == last_out
        rest == result.v - (CommissionBand(a.commission_value)
                            + CompetitionBand(a.competition_level)
                            + TrafficBand(a.traffic))
    IN  /\ result.v \in 0..100
        /\ rest \in 0..30

\* arguments that differ only in traffic and domain authority, within the
\* same bands, get the same score
C23_BandOnly ==
    \A b \in ScalabilityArgs :
        (/\ b.commission_value = last_out.commission_value
         /\ b.competition_level = last_out.competition_level
         /\ b.cookie_duration = last_out.cookie_duration
         /\ TrafficBand(b.traffic) = TrafficBand(last_out.traffic)
         /\ AuthorityBand(b.domain_authority) = AuthorityBand(last_out.domain_authority))
            => ScalabilityOf(b) = result.v

Limits == {1, 5, 10, 12}
Listings == {0, 3, 5, 9, 10, 15}

\* what one external source does in one call: fails (HTTP error status,
\* network exception, timeout, unparsable answer) or holds so many listings,
\* every one of which parses and matches the keyword
SourceOutcomes == {Raised} \cup {Num(n) : n \in Listings}

\* SerpAPI, the second source of OfferVault, can also be not configured
SerpOutcomes == {None} \cup SourceOutcomes

SourceProviders == {"impact", "impact_marketplace", "offervault", "affbank"}

\* one search_offers(keyword, limit=limit) call: the provider, the limit, its
\* source and, for OfferVault, SerpAPI
SearchArgs ==
    [t : {"args"}, provider : SourceProviders, limit : Limits,
     source : SourceOutcomes, serp : SerpOutcomes]

\* the offers a provider builds from the first k listings of its source
ListingOffers(provider, k) ==
    [i \in 1..k |->
        NewOffer([id |-> Str(provider \o "-" \o ToString(i)),
                  name |-> Str("Listing " \o ToString(i)),
                  network |-> Str(provider),
                  advertiser_name |-> Str("Listing"),
                  advertiser_id |-> Str(provider \o "-" \o ToString(i)),
                  category |-> Str("Direct Brand")])]

\* _create_discovery_offers(keyword, limit): one offer for each of
\* search_variations[:max(limit, 10)], a list of eight search links
SearchVariations == 8

_create_discovery_offers(limit) ==
    [i \in 1..Min(SearchVariations, Max(limit, 10)) |->
        NewOffer([id |-> Str("offervault-software-" \o ToString(i)),
                  name |-> Str("Search link " \o ToString(i)),
                  network |-> Str("offervault"),
                  advertiser_name |-> Str("Discovery"),
                  advertiser_id |-> Str("discovery-" \o ToString(i)),
                  commission_type |-> Str("Varies"),
                  category |-> Str("Blog Post")])]

\* the listings a provider gets to see of a source: none when it fails or is
\* not configured, else the first `limit` (PageSize=limit, rows[:limit],
\* all_programs[:limit], break at len(offers) >= limit)
Seen(outcome, limit) ==
    IF outcome.t = "num" THEN Min(outcome.v, limit) ELSE 0

\* the providers at the start of a search_offers call
InitProvider ==
    /\ sheets = [tab \in Tabs |-> NoSheet]
    /\ today = 1
    /\ sheets_cache = FALSE
    /\ networks = <<>>
    /\ pc = "search_offers"
    /\ op = "search_offers"
    /\ keyword = Str("software")
    /\ force_refresh = FALSE
    /\ analyze_potential = FALSE
    /\ min_commission = None
    /\ all_offers = <<>>
    /\ idx = 0
    /\ invoked = <<>>
    /\ last_out \in SearchArgs
    /\ scored = 0
    /\ cache_log = NoLog
    /\ result = None
    /\ last_write = [tab \in Tabs |-> None]
    /\ same_writes = [tab \in Tabs |-> 0]
    /\ seed = "lo"
    /\ environ = {}
    /\ writer2 = NoWriter

\* ImpactNetwork.search_offers: the campaigns of one page of PageSize=limit;
\* [] on a status other than 200 and on any exception
ImpactSearchOffers ==
    /\ pc = "search_offers"
    /\ last_out.provider = "impact"
    /\ result' = Lst(ListingOffers("impact", Seen(last_out.source, last_out.limit)))
    /\ pc' = "done"
    /\ UNCHANGED <<sheets, today, sheets_cache, networks, op, keyword,
                   force_refresh, analyze_potential, min_commission,
                   all_offers, idx, invoked, last_out, scored, cache_log,
                   last_write, same_writes, seed, environ, writer2>>

\* ImpactMarketplaceNetwork.search_offers: all_programs[:limit]; a page that
\* fails ends the paging with what was collected, here nothing
ImpactMarketplaceSearchOffers ==
    /\ pc = "search_offers"
    /\ last_out.provider = "impact_marketplace"
    /\ result' = Lst(ListingOffers("impact_marketplace",
                                   Seen(last_out.source, last_out.limit)))
    /\ pc' = "done"
    /\ UNCHANGED <<sheets, today, sheets_cache, networks, op, keyword,
                   force_refresh, analyze_potential, min_commission,
                   all_offers, idx, invoked, last_out, scored, cache_log,
                   last_write, same_writes, seed, environ, writer2>>

\* AffbankNetwork.search_offers: rows[:limit]; [] on a status other than 200,
\* on a page without table and on any exception
AffbankSearchOffers ==
    /\ pc = "search_offers"
    /\ last_out.provider = "affbank"
    /\ result' = Lst(ListingOffers("affbank", Seen(last_out.source, last_out.limit)))
    /\ pc' = "done"
    /\ UNCHANGED <<sheets, today, sheets_cache, networks, op, keyword,
                   force_refresh, analyze_potential, min_commission,
                   all_offers, idx, invoked, last_out, scored, cache_log,
                   last_write, same_writes, seed, environ, writer2>>

\* OfferVaultNetwork.search_offers: the direct scrape when it gives 10 offers
\* or more, else the SerpAPI search when it gives 5 or more, else the
\* discovery offers
OfferVaultSearchOffers ==
    /\ pc = "search_offers"
    /\ last_out.provider = "offervault"
    /\ LET ov_offers == ListingOffers("offervault", Seen(last_out.source, last_out.limit))
           serp_offers == ListingOffers("serp", Seen(last_out.serp, last_out.limit))
       IN  result' = Lst(IF Len(ov_offers) >= 10 THEN ov_offers
                         ELSE IF Len(serp_offers) >= 5 THEN serp_offers
                         ELSE _create_discovery_offers(last_out.limit))
    /\ pc' = "done"
    /\ UNCHANGED <<sheets, today, sheets_cache, networks, op, keyword,
                   force_refresh, analyze_potential, min_commission,
                   all_offers, idx, invoked, last_out, scored, cache_log,
                   last_write, same_writes, seed, environ, writer2>>

NextProvider ==
    \/ ImpactSearchOffers
    \/ ImpactMarketplaceSearchOffers
    \/ AffbankSearchOffers
    \/ OfferVaultSearchOffers

SpecProvider == InitProvider /\ [][NextProvider]_vars

\* C24: for every provider, every method of OfferVault and every limit n,
\* search_offers(limit=n) returns at most n offers.
C24_AtMostLimit ==
    (pc = "done" /\ op = "search_offers")
        => (result.t = "list" /\ Len(result.v) <= last_out.limit)

\* every source the provider of the call uses has failed
SourcesFailed ==
    /\ last_out.source = Raised
    /\ last_out.provider = "offervault" => last_out.serp = Raised

\* C25: search_offers of a provider never raises, and when its external
\* source has failed it returns the empty list, not made-up offers.
C25_FailureGivesEmptyList ==
    (pc = "done" /\ op = "search_offers")
        => /\ result.t = "list"
           /\ SourcesFailed => result.v = <<>>

\* the fields analyze_offers_potential assigns
ScoringFields ==
    {"potential_score", "potential_rating", "potential_analysis",
     "related_keywords", "scalability_score", "cookie_duration",
     "traffic_monthly", "growth_percentage", "competition_level",
     "domain_authority", "instagram_followers"}

\* identity and the fields the providers supply: advertiser, commission
\* terms, performance signals, links, category, description
ProviderFields ==
    {"id", "name", "network", "description", "advertiser_name",
     "advertiser_id", "commission_type", "commission_value",
     "commission_currency", "epc", "conversion_rate", "avg_sale_value",
     "popularity_score", "category", "subcategory", "tracking_url",
     "landing_page_url"}

\* C26: every step of analyze_offers_potential, one that raises included,
\* keeps the length and the order of the list and the identity fields and
\* provider-supplied fields of every offer; it changes derived score fields
\* only.
C26_ScoringFrame ==
    [][ pc = "score"
          => /\ Len(all_offers') = Len(all_offers)
             /\ \A i \in 1..Len(all_offers) :
                   \A c \in Columns \ ScoringFields : all_offers'[i][c] = all_offers[i][c]
      ]_vars

\* C26, reached: the scoring has gone over an offer it scored and an offer on
\* which it raised
C26_Witness ==
    /\ pc = "score" /\ idx > Len(all_offers) /\ Len(all_offers) >= 2
    /\ all_offers[1].potential_score # None
    /\ all_offers[1].scalability_score # None
    /\ BrandRaises(all_offers[2].name)
    /\ all_offers[2].potential_score = None
    /\ \A c \in ProviderFields : all_offers[1][c] = OfferI1[c]

\* C27: on the miss path of search_discovery_networks the providers are
\* invoked one at a time, each exactly once: the credentialed ones in
\* registration order, then the discovery ones in registration order; each
\* call ends, with offers or with an exception, before the next starts, and
\* the merged list grows only by a call, at its end, by the offers the call
\* returned, so that before scoring it is the concatenation of the results.
C27_SequentialFanout ==
    [][ (pc = "fanout" /\ op = "discovery")
          => /\ invoked' # invoked
                  => /\ Len(invoked) < Len(networks \o discovery_networks)
                     /\ invoked' = Append(invoked,
                                     (networks \o discovery_networks)[Len(invoked) + 1])
                     /\ all_offers' = all_offers \o
                          (IF last_out'.t = "list" THEN last_out'.v ELSE <<>>)
             /\ invoked' = invoked => all_offers' = all_offers
             /\ pc' # "fanout" => invoked = networks \o discovery_networks
      ]_vars

\* C27, reached: the three providers have been called in order and the merged
\* list, not yet scored, is their results one after the other
C27_Witness ==
    /\ op = "discovery" /\ pc = "score" /\ scored = 0
    /\ invoked = <<"impact", "offervault", "affbank">>
    /\ all_offers = <<OfferI1, OfferI2, OfferV1, OfferA1>>

\* ------------------------------------- cache writes next to other tables
\* search keys a user can type: an ordinary one, and two that sanitize to the
\* names of the freshness table and of the feedback table
FrameKeys == {"Software ", "VPN ", " _Metadata", "_feedback"}

\* header and row of the feedback table
FeedbackHeader == <<Str("timestamp"), Str("name"), Str("message")>>
FeedbackRow == <<Str("2026-11-01 12:00:00"), Str("Ann"), Str("thanks")>>

\* the feedback rows a run appends at most
MaxFeedback == 1

\* a caller starts write_offers(keyword, offers)
CallWriteFrame ==
    /\ pc = "idle"
    /\ \E k \in FrameKeys, offers \in StampLists :
          /\ keyword' = k
          /\ all_offers' = offers
    /\ op' = "write_offers"
    /\ pc' = "w_open"
    /\ cache_log' = [NoLog EXCEPT !.write = "started"]
    /\ UNCHANGED <<sheets, today, sheets_cache, networks, force_refresh,
                   analyze_potential, min_commission, idx, invoked, last_out,
                   scored, result, last_write, same_writes, seed, environ, writer2>>

\* append_feedback(name, message): the table is created with its header when
\* it is missing, and the row is appended
AppendFeedback ==
    /\ pc = "idle"
    /\ Len(sheets[FEEDBACK_WORKSHEET_NAME].rows) <= MaxFeedback
    /\ LET sh1 == EnsureSheet(sheets, FEEDBACK_WORKSHEET_NAME, FeedbackHeader)
       IN  sheets' = [sh1 EXCEPT ![FEEDBACK_WORKSHEET_NAME] =
                         Sheet(Append(@.rows, FeedbackRow))]
    /\ UNCHANGED <<today, sheets_cache, networks, pc, op, keyword,
                   force_refresh, analyze_potential, min_commission,
                   all_offers, idx, invoked, last_out, scored, cache_log,
                   result, last_write, same_writes, seed, environ, writer2>>

NextFrame ==
    \/ CallWriteFrame
    \/ AppendFeedback
    \/ WriteOpen
    \/ WriteClear
    \/ WriteHeader
    \/ WriteRows
    \/ WriteStamp
    \/ Return

SpecFrame == InitCache /\ [][NextFrame]_vars

\* the feedback rows in the table: those that are the row append_feedback
\* writes
FeedbackRows(sh) ==
    {i \in 1..Len(sh[FEEDBACK_WORKSHEET_NAME].rows) :
        sh[FEEDBACK_WORKSHEET_NAME].rows[i] = FeedbackRow}

\* the tab names of the keys a caller can write
FrameTabs == {_sanitize_tab_name(k) : k \in FrameKeys}

\* C28: every step of write_offers(k, offers), for every key k, the keys that
\* sanitize to "_metadata" and "_feedback" included, leaves the freshness
\* rows of the other keys, the row tables of the keys of another sanitized
\* name and the feedback rows as they were.
C28_WriteFrame ==
    [][ (op = "write_offers" /\ pc \in WritePcs)
          => /\ \A tab \in FrameTabs \ {tab_name} :
                   /\ StoredDate(sheets', tab) = StoredDate(sheets, tab)
                   /\ tab # META_WORKSHEET_NAME /\ tab # FEEDBACK_WORKSHEET_NAME
                         => sheets'[tab] = sheets[tab]
             /\ \A i \in FeedbackRows(sheets) : i \in FeedbackRows(sheets')
      ]_vars

\* C29: a search_discovery_networks call without force_refresh that returns
\* the offers of the cache leaves every table of the spreadsheet, the
\* freshness table included, as it was before the call, calls no provider and
\* scores nothing: what it returns is what read_offers gives for the key.
C29_CacheHitReadOnly ==
    [][ (pc = "check" /\ pc' = "done")
          => /\ op = "discovery" /\ ~force_refresh
             /\ sheets' = sheets
             /\ result' = Lst(read_offers(sheets, effective_keyword))
             /\ scored' = 0 /\ invoked' = <<>>
             /\ cache_log'.write = "none"
      ]_vars

\* C29, reached: a search has returned the stored offers of a fresh key
C29_Witness ==
    /\ pc = "done" /\ op = "discovery" /\ cache_log.read = "ok"
    /\ result.t = "list" /\ result.v # <<>>
    /\ FreshNow = "True"
    /\ Len(sheets[tab_name].rows) = 1 + Len(result.v)

\* C30: whenever no write is under way and is_cache_fresh is true for a key,
\* also after a write_offers call for the key that failed between clearing
\* the table and stamping the freshness, the key's table holds the header and
\* every offer of the most recent write that changed it; a fresh key has no
\* cleared and no partly written table.
C30_FreshImpliesComplete ==
    \A k \in CacheKeys :
        (pc \in {"idle", "done"} /\ is_cache_fresh(sheets, k, today) = "True")
            => LET tab == _sanitize_tab_name(k)
               IN  /\ last_write[tab] # None
                   /\ sheets[tab].ex
                   /\ sheets[tab].rows = <<OfferHeader>> \o OfferRows(last_write[tab].v)

====
